---- MODULE Spec2Model ----
(***************************************************************************)
(* Model of the "Jaka to melodia" game server: the socket handlers of      *)
(* server/server.js (rooms registry, membership, rounds, buzzer, scoring), *)
(* the Firestore room snapshots of server/room-manager.js and the answer   *)
(* matcher of server/utils.js.                                             *)
(*                                                                         *)
(* One room code is modelled.  Socket ids are the integers 1..NumSockets,  *)
(* the sentinel key `pending-<uid>` of a member rebuilt from a snapshot is *)
(* the negative integer -uid, and a null / undefined id is 0.              *)
(* Strings that the matcher inspects are sequences of one-character        *)
(* strings; member names are atoms.                                        *)
(***************************************************************************)
EXTENDS Integers, Sequences, FiniteSets, TLC

(***************************************************************************)
(* Generic helpers on sequences                                            *)
(***************************************************************************)
Range(s) == {s[i] : i \in 1..Len(s)}

Min2(a, b) == IF a <= b THEN a ELSE b

\* s without its first n elements
Drop(s, n) == IF n >= Len(s) THEN <<>> ELSE SubSeq(s, n + 1, Len(s))

\* the first n elements of s
Take(s, n) == IF n <= 0 THEN <<>> ELSE SubSeq(s, 1, Min2(n, Len(s)))

(***************************************************************************)
(* Characters (server/utils.js works on JavaScript strings)                *)
(***************************************************************************)
LowerLetters ==
  {"a","b","c","d","e","f","g","h","i","j","k","l","m",
   "n","o","p","q","r","s","t","u","v","w","x","y","z"}

UpperLetters ==
  {"A","B","C","D","E","F","G","H","I","J","K","L","M",
   "N","O","P","Q","R","S","T","U","V","W","X","Y","Z"}

Digits == {"0","1","2","3","4","5","6","7","8","9"}

\* String.prototype.toLowerCase on one character
LowerChar(c) ==
  CASE c = "A" -> "a" [] c = "B" -> "b" [] c = "C" -> "c" [] c = "D" -> "d"
    [] c = "E" -> "e" [] c = "F" -> "f" [] c = "G" -> "g" [] c = "H" -> "h"
    [] c = "I" -> "i" [] c = "J" -> "j" [] c = "K" -> "k" [] c = "L" -> "l"
    [] c = "M" -> "m" [] c = "N" -> "n" [] c = "O" -> "o" [] c = "P" -> "p"
    [] c = "Q" -> "q" [] c = "R" -> "r" [] c = "S" -> "s" [] c = "T" -> "t"
    [] c = "U" -> "u" [] c = "V" -> "v" [] c = "W" -> "w" [] c = "X" -> "x"
    [] c = "Y" -> "y" [] c = "Z" -> "z" [] OTHER -> c

ToLowerCase(s) == [i \in 1..Len(s) |-> LowerChar(s[i])]

\* \s of a JavaScript regular expression (the model's strings hold no other
\* white space than the blank)
IsSpace(c) == c = " "

\* [\p{L}\p{N}\s] : what step 4 of normalize keeps
IsKept(c) == c \in LowerLetters \cup UpperLetters \cup Digits \/ IsSpace(c)

\* does the literal w (lower case) occur in s at position i, ignoring case
\* (the i flag of the noise patterns)
HasAt(s, i, w) ==
  /\ i >= 1
  /\ i + Len(w) - 1 <= Len(s)
  /\ \A k \in 1..Len(w) : LowerChar(s[i + k - 1]) = w[k]

\* number of white-space characters of s from position i on (\s*)
RECURSIVE SpacesAt(_, _)
SpacesAt(s, i) ==
  IF i <= Len(s) /\ IsSpace(s[i]) THEN 1 + SpacesAt(s, i + 1) ELSE 0

\* String.prototype.includes
Includes(s, w) ==
  \E i \in 1..(Len(s) - Len(w) + 1) : SubSeq(s, i, i + Len(w) - 1) = w

\* position of the first occurrence of w in s, 0 when there is none
IndexOf(s, w) ==
  IF Includes(s, w)
  THEN CHOOSE i \in 1..(Len(s) - Len(w) + 1) :
         /\ SubSeq(s, i, i + Len(w) - 1) = w
         /\ \A j \in 1..(i - 1) : SubSeq(s, j, j + Len(w) - 1) # w
  ELSE 0

(***************************************************************************)
(* Thresholds of the matcher (server/utils.js)                             *)
(***************************************************************************)
\* tokens of at most this many characters are ignored: x.length > 2
MinTokenLen == 2
\* token overlap ratio >= 0.7, in tenths
OverlapTenths == 7
\* compareTwoStrings(g, target) >= 0.7, in tenths
FuzzyTenths == 7

(***************************************************************************)
(* normalize (server/utils.js)                                             *)
(***************************************************************************)
CloseOf(c) == CASE c = "(" -> ")" [] c = "[" -> "]" [] c = "{" -> "}" [] OTHER -> ""

\* smallest position j >= i of s that holds c, 0 when there is none
RECURSIVE FirstFrom(_, _, _)
FirstFrom(s, i, c) ==
  IF i > Len(s) THEN 0
  ELSE IF s[i] = c THEN i ELSE FirstFrom(s, i + 1, c)

\* .replace(/\(.*?\)|\[.*?\]|\{.*?\}/g, " ") : each leftmost, shortest
\* bracketed span becomes one blank; an opener with no closer stays
RECURSIVE StripBrackets(_, _)
StripBrackets(s, i) ==
  IF i > Len(s) THEN <<>>
  ELSE LET j == IF s[i] \in {"(", "[", "{"}
                THEN FirstFrom(s, i + 1, CloseOf(s[i]))
                ELSE 0
       IN IF j > 0 THEN <<" ">> \o StripBrackets(s, j + 1)
          ELSE <<s[i]>> \o StripBrackets(s, i + 1)

\* length of the match of
\*   /official\s*video|lyrics?|audio|remaster(ed)?|hd|hq|mv/gi
\* at position i of s (0: no match); alternatives are tried in order
JunkLen(s, i) ==
  IF HasAt(s, i, <<"o","f","f","i","c","i","a","l">>)
     /\ HasAt(s, i + 8 + SpacesAt(s, i + 8), <<"v","i","d","e","o">>)
  THEN 8 + SpacesAt(s, i + 8) + 5
  ELSE IF HasAt(s, i, <<"l","y","r","i","c">>)
  THEN (IF HasAt(s, i + 5, <<"s">>) THEN 6 ELSE 5)
  ELSE IF HasAt(s, i, <<"a","u","d","i","o">>) THEN 5
  ELSE IF HasAt(s, i, <<"r","e","m","a","s","t","e","r">>)
  THEN (IF HasAt(s, i + 8, <<"e","d">>) THEN 10 ELSE 8)
  ELSE IF HasAt(s, i, <<"h","d">>) \/ HasAt(s, i, <<"h","q">>) \/ HasAt(s, i, <<"m","v">>) THEN 2
  ELSE 0

\* length of the match of /feat\.?|ft\.?|prod\.?|produced\s*by/gi at
\* position i of s (0: no match).  "prod" is tried before "produced by", so
\* the last alternative never decides a match.
CreditLen(s, i) ==
  IF HasAt(s, i, <<"f","e","a","t">>) THEN (IF HasAt(s, i + 4, <<".">>) THEN 5 ELSE 4)
  ELSE IF HasAt(s, i, <<"f","t">>) THEN (IF HasAt(s, i + 2, <<".">>) THEN 3 ELSE 2)
  ELSE IF HasAt(s, i, <<"p","r","o","d">>) THEN (IF HasAt(s, i + 4, <<".">>) THEN 5 ELSE 4)
  ELSE IF HasAt(s, i, <<"p","r","o","d","u","c","e","d">>)
          /\ HasAt(s, i + 8 + SpacesAt(s, i + 8), <<"b","y">>)
  THEN 8 + SpacesAt(s, i + 8) + 2
  ELSE 0

RECURSIVE StripJunk(_, _)
StripJunk(s, i) ==
  IF i > Len(s) THEN <<>>
  ELSE IF JunkLen(s, i) > 0
       THEN <<" ">> \o StripJunk(s, i + JunkLen(s, i))
       ELSE <<s[i]>> \o StripJunk(s, i + 1)

RECURSIVE StripCredit(_, _)
StripCredit(s, i) ==
  IF i > Len(s) THEN <<>>
  ELSE IF CreditLen(s, i) > 0
       THEN <<" ">> \o StripCredit(s, i + CreditLen(s, i))
       ELSE <<s[i]>> \o StripCredit(s, i + 1)

\* .replace(/[^\p{L}\p{N}\s]/gu, " ")
PunctToSpace(s) == [i \in 1..Len(s) |-> IF IsKept(s[i]) THEN s[i] ELSE " "]

\* .replace(/\s+/g, " ")
RECURSIVE CollapseSpaces(_, _)
CollapseSpaces(s, i) ==
  IF i > Len(s) THEN <<>>
  ELSE IF IsSpace(s[i])
       THEN <<" ">> \o CollapseSpaces(s, i + SpacesAt(s, i))
       ELSE <<s[i]>> \o CollapseSpaces(s, i + 1)

\* String.prototype.trim
RECURSIVE TrimRight(_)
TrimRight(s) ==
  IF s # <<>> /\ IsSpace(s[Len(s)]) THEN TrimRight(SubSeq(s, 1, Len(s) - 1))
  ELSE s

Trim(s) == TrimRight(Drop(s, SpacesAt(s, 1)))

normalize(str) ==
  IF str = <<>> THEN <<>>
  ELSE Trim(CollapseSpaces(
         PunctToSpace(ToLowerCase(
           StripCredit(StripJunk(StripBrackets(str, 1), 1), 1))), 1))

(***************************************************************************)
(* getDetailedMatch (server/utils.js) and the library call it makes        *)
(***************************************************************************)
\* String.prototype.split(" ") : the pieces between blanks
RECURSIVE SplitSpace(_)
SplitSpace(s) ==
  LET j == FirstFrom(s, 1, " ")
  IN IF j = 0 THEN <<s>>
     ELSE <<Take(s, j - 1)>> \o SplitSpace(Drop(s, j))

\* .split(" ").filter((x) => x.length > 2)
RECURSIVE LongTokens(_)
LongTokens(toks) ==
  IF toks = <<>> THEN <<>>
  ELSE IF Len(Head(toks)) > MinTokenLen THEN <<Head(toks)>> \o LongTokens(Tail(toks))
       ELSE LongTokens(Tail(toks))

Tokens(s) == LongTokens(SplitSpace(s))

\* gTokens.filter((val) => tTokens.includes(val)).length
Overlap(gTokens, tTokens) ==
  Cardinality({i \in 1..Len(gTokens) : gTokens[i] \in Range(tTokens)})

\* s without white space (first.replace(/\s+/g, ""))
RECURSIVE NoSpaces(_)
NoSpaces(s) ==
  IF s = <<>> THEN <<>>
  ELSE IF IsSpace(Head(s)) THEN NoSpaces(Tail(s))
       ELSE <<Head(s)>> \o NoSpaces(Tail(s))

Bigram(s, i) == <<s[i], s[i + 1]>>

\* how often the bigram b occurs in s
BigramCount(s, b) == Cardinality({i \in 1..(Len(s) - 1) : Bigram(s, i) = b})

\* the intersection size string-similarity counts: every bigram of the
\* second string consumes one occurrence of it in the first
RECURSIVE SumCommon(_, _, _)
SumCommon(grams, a, b) ==
  IF grams = {} THEN 0
  ELSE LET g == CHOOSE x \in grams : TRUE
       IN Min2(BigramCount(a, g), BigramCount(b, g)) + SumCommon(grams \ {g}, a, b)

BigramIntersection(a, b) == SumCommon({Bigram(b, i) : i \in 1..(Len(b) - 1)}, a, b)

\* stringSimilarity.compareTwoStrings(first, second) >= num/10
\* (Dice coefficient 2*|intersection| / (|first| + |second| - 2) on the
\* strings without white space; equal strings score 1, a string shorter
\* than two characters scores 0)
DiceAtLeast(first, second, tenths) ==
  LET a == NoSpaces(first)
      b == NoSpaces(second)
  IN IF a = b THEN TRUE
     ELSE IF Len(a) < 2 \/ Len(b) < 2 THEN FALSE
     ELSE 20 * BigramIntersection(a, b) >= tenths * (Len(a) + Len(b) - 2)

\* the threshold of isGuessCorrect on the fuzzy score, in hundredths
FuzzyHundredths == 65

\* stringSimilarity.compareTwoStrings(first, second) >= num/100
DiceAtLeastHundredths(first, second, hundredths) ==
  LET a == NoSpaces(first)
      b == NoSpaces(second)
  IN IF a = b THEN TRUE
     ELSE IF Len(a) < 2 \/ Len(b) < 2 THEN FALSE
     ELSE 200 * BigramIntersection(a, b) >= hundredths * (Len(a) + Len(b) - 2)

\* hasHighOverlap(set1, set2) inside isGuessCorrect
hasHighOverlap(set1, set2) ==
  IF set1 = {} \/ set2 = {} THEN FALSE
  ELSE \/ 10 * Cardinality(set1 \cap set2) >= OverlapTenths * Cardinality(set1)
       \/ 10 * Cardinality(set1 \cap set2) >= OverlapTenths * Cardinality(set2)

\* isGuessCorrect(guess, title, artist) of server/utils.js
isGuessCorrect(guess, title, artist) ==
  LET g == normalize(guess)
      t == normalize(title)
      a == normalize(artist)
  IN IF g = <<>> THEN FALSE
     ELSE IF t # <<>> /\ (Includes(g, t) \/ Includes(t, g)) THEN TRUE
     ELSE IF a # <<>> /\ (Includes(g, a) \/ Includes(a, g)) THEN TRUE
     ELSE IF hasHighOverlap(Range(Tokens(g)), Range(Tokens(t))) THEN TRUE
     ELSE IF hasHighOverlap(Range(Tokens(g)), Range(Tokens(a))) THEN TRUE
     ELSE \/ t # <<>> /\ DiceAtLeastHundredths(g, t, FuzzyHundredths)
          \/ a # <<>> /\ DiceAtLeastHundredths(g, a, FuzzyHundredths)

\* isMatch(g, target) inside check()
isMatch(g, target) ==
  IF target = <<>> THEN FALSE
  ELSE IF g = target THEN TRUE
  ELSE IF Includes(g, target) \/ Includes(target, g) THEN TRUE
  ELSE IF /\ Len(Tokens(g)) > 0
          /\ Len(Tokens(target)) > 0
          /\ \/ 10 * Overlap(Tokens(g), Tokens(target)) >= OverlapTenths * Len(Tokens(g))
             \/ 10 * Overlap(Tokens(g), Tokens(target)) >= OverlapTenths * Len(Tokens(target))
  THEN TRUE
  ELSE DiceAtLeast(g, target, FuzzyTenths)

\* check(guess, primaryTarget, secondaryTarget, backupTarget)
check(guess, primaryTarget, secondaryTarget, backupTarget) ==
  IF guess = <<>> THEN FALSE
  ELSE \/ isMatch(guess, normalize(primaryTarget))
       \/ isMatch(guess, normalize(secondaryTarget))
       \/ isMatch(guess, normalize(backupTarget))

\* normT.replace(normA, "").trim() : the first occurrence only
RemoveFirst(s, w) ==
  IF IndexOf(s, w) = 0 THEN s
  ELSE Take(s, IndexOf(s, w) - 1) \o Drop(s, IndexOf(s, w) + Len(w) - 1)

cleanTitle(normT, normA) ==
  IF normA # <<>> /\ Includes(normT, normA) THEN Trim(RemoveFirst(normT, normA))
  ELSE normT

getDetailedMatch(guessArtist, guessTitle, targetArtist, targetTitle) ==
  LET normGA == normalize(guessArtist)
      normGT == normalize(guessTitle)
      normA == normalize(targetArtist)
      normT == normalize(targetTitle)
  IN [artistCorrect |-> check(normGA, normA, normT, targetTitle),
      titleCorrect |-> check(normGT, normT, cleanTitle(normT, normA), targetArtist)]


(***************************************************************************)
(* Bounds of the model                                                     *)
(***************************************************************************)
\* connections that are ever opened; a socket id is never reused
NumSockets == 3
\* Firebase users that present a verifiable token
NumUids == 1
\* tracks of the catalog the host loads
NumTracks == 2
\* the clock runs from 1 to MaxTime
MaxTime == 2
\* a score is kept within -MaxScore..MaxScore by the guards
MaxScore == 10

Sockets == 1..NumSockets
Uids == 1..NumUids
TrackIds == 1..NumTracks

\* a null or undefined socket id / an empty hostUid / no uid
NoId == 0
\* the key `pending-${uid}` of a member rebuilt from a snapshot
PendingSid(uid) == 0 - uid

(***************************************************************************)
(* Inputs the clients send                                                 *)
(***************************************************************************)
\* joinRoom's name; "" stands for a missing or blank name
NameInputs == {"", "Bob"}
\* awardPoints / deductPoints `points`: 0 stands for every value that
\* Number(points) || 10 turns into 10 (undefined, 0, NaN)
PointInputs == {0, 5, 0 - 5}
Modes == {"spotify", "youtube"}
\* startGame's gameType; "" stands for a missing one
GameTypeInputs == {"", "text", "buzzer"}

\* track 1 is the spec's example track, with a preview; track 2 has
\* neither preview nor video id; the catalog has two more tracks, track 3
\* with a video id and track 4 with a video id and a preview; only track 1
\* has an artist
TrackTitle(t) ==
  IF t = 1 THEN <<"D","e","s","z","c","z"," ","n","a"," ","b","e","t","o","n","i","e">> ELSE <<"O","n","a"," ","t","a","n","c","z","y">>
TrackArtist(t) ==
  IF t = 1 THEN <<"T","a","c","o"," ","H","e","m","i","n","g","w","a","y">> ELSE <<>>
TrackHasPreview(t) == t \in {1, 4}
TrackHasVideoId(t) == t \in {3, 4}
TrackSource(t) == "spotify"

\* texts sent with guess
GuessIds == {1, 2, 3}
GuessText(g) ==
  CASE g = 1 -> <<"T","a","c","o"," ","H","e","m","i","n","g","w","a","y"," ","D","e","s","z","c","z"," ","n","a"," ","b","e","t","o","n","i","e">>
    [] g = 2 -> <<"d","e","s","z","c","z"," ","n","a"," ","b","e","t","o","n","i","e">>
    [] OTHER -> <<"K","o","m","e","t","a">>

\* the titles and artists isGuessCorrect is tried on: tracks as playlists
\* have them, among them titles that are a word of the junk list or a
\* bracket, and a track without an artist
TitleInputs ==
  {<<"D","e","s","z","c","z"," ","n","a"," ","b","e","t","o","n","i","e">>,
   <<"O","n","a"," ","t","a","n","c","z","y">>,
   <<"K","o","m","e","t","a"," ","(","R","e","m","a","s","t","e","r","e","d",")">>,
   <<"A","u","d","i","o">>,
   <<"(","I","n","t","r","o",")">>,
   <<"H","D">>}
ArtistInputs ==
  {<<>>,
   <<"T","a","c","o"," ","H","e","m","i","n","g","w","a","y">>,
   <<"S","a","n","a","h">>,
   <<"J","a","n"," ","R","a","p","o","w","a","n","i","e"," ","f","t","."," ","O","t","s","o","c","h","o","d","z","i">>}

\* the strings normalize is tried on: two words of titles as video sites
\* have them, joined by a blank or by punctuation
NormalizeWords ==
  {<<"K","o","m","e","t","a">>,
   <<"O","f","f","i","c","i","a","l">>,
   <<"v","i","d","e","o">>,
   <<"H","D">>,
   <<"(","l","i","v","e",")">>,
   <<"R","e","m","a","s","t","e","r","e","d">>}
NormalizeJoints == {<<" ">>, <<"-">>, <<".">>}
NormalizeInputs ==
  {first \o joint \o second :
     first \in NormalizeWords, joint \in NormalizeJoints, second \in NormalizeWords}


(***************************************************************************)
(* State                                                                   *)
(***************************************************************************)
VARIABLES
  rooms,     \* the registry `rooms`: <<>> or <<room>> for the one code
  store,     \* the Firestore document rooms/<code>: <<>> or <<snapshot>>
  conn,      \* the sockets: how many have connected, which have disconnected
  now,       \* Date.now()
  yt,        \* the search circuit breaker: ytQuotaExceeded, ytQuotaResetTime
  pending,   \* handlers suspended in an await on the store or on a search
  emitted,   \* what the last step sent, in order: events to the room and
             \* increments to the leaderboard
  last,      \* the last operation and its acknowledgement
  crashed,   \* an exception left a handler uncaught
  hist       \* bookkeeping about the current round (not program state);
             \* under SpecMatch the target and the guess of isGuessCorrect

vars == <<rooms, store, conn, now, yt, pending, emitted, last, crashed, hist>>

\* no time recorded
NoTime == 0 - 1
\* winner: null of a roundEnd
NoName == ""

(***************************************************************************)
(* room.users : a Map from socket id to user, in insertion order           *)
(***************************************************************************)
UsersHas(users, sid) == \E i \in 1..Len(users) : users[i].sid = sid

UserIdx(users, sid) == CHOOSE i \in 1..Len(users) : users[i].sid = sid

UsersGet(users, sid) == users[UserIdx(users, sid)]

\* Map.set: an existing key keeps its place, a new key goes last
UsersSet(users, u) ==
  IF UsersHas(users, u.sid) THEN [users EXCEPT ![UserIdx(users, u.sid)] = u]
  ELSE Append(users, u)

\* Map.delete
UsersDelete(users, sid) == SelectSeq(users, LAMBDA u : u.sid # sid)

\* [...room.users.entries()].find(([, u]) => u.name === playerName)
FindByName(users, name) ==
  IF \E i \in 1..Len(users) : users[i].name = name
  THEN CHOOSE i \in 1..Len(users) :
         /\ users[i].name = name
         /\ \A j \in 1..(i - 1) : users[j].name # name
  ELSE 0

\* a search that finds nobody
FindByUidNone(users, uid) == 0

\* [...room.users.entries()].find(([, u]) => u.uid === uid)
FindByUid(users, uid) ==
  IF \E i \in 1..Len(users) : users[i].uid = uid
  THEN CHOOSE i \in 1..Len(users) :
         /\ users[i].uid = uid
         /\ \A j \in 1..(i - 1) : users[j].uid # uid
  ELSE 0

(***************************************************************************)
(* server/room-manager.js : saveRoom, getRoomFromFirestore                 *)
(* (Firebase Admin is taken to be initialized, so that rooms are stored.)  *)
(***************************************************************************)
\* players[u.uid] = { name, score } for every user with a uid; a later
\* entry with the same uid overwrites an earlier one
PlayersOf(users) ==
  {[uid |-> users[i].uid, name |-> users[i].name, score |-> users[i].score] :
     i \in {k \in 1..Len(users) :
              /\ users[k].uid # NoId
              /\ \A j \in (k + 1)..Len(users) : users[j].uid # users[k].uid}}

\* set(payload, { merge: true }) keeps the players the payload does not name
MergePlayers(old, new) ==
  new \cup {p \in old : \A q \in new : q.uid # p.uid}

\* the payload saveRoom writes.  The round is stored as it is in memory
\* (its buzzer holds socket ids); hostId is not part of the payload.
Payload(r) ==
  [hostUid |-> r.hostUid,
   mode |-> IF r.mode = "" THEN "spotify" ELSE r.mode,
   gameType |-> r.gameType,
   roundCount |-> r.roundCount,
   tracks |-> r.tracks,
   answersKnown |-> r.answersKnown,
   currentRound |-> r.currentRound,
   players |-> PlayersOf(r.users)]

\* the document after saveRoom(code, r), given the document before
saveRoom(doc, r) ==
  <<[Payload(r) EXCEPT
       !.players = MergePlayers(IF doc = <<>> THEN {} ELSE doc[1].players, @)]>>

(***************************************************************************)
(* getRoom (server/server.js)                                              *)
(***************************************************************************)
\* room.users.set(`pending-${uid}`, { ...pData, uid }) for every stored
\* player, in the order of the uids
RECURSIVE PendingUsers(_, _)
PendingUsers(players, uid) ==
  IF uid > NumUids THEN <<>>
  ELSE IF \E p \in players : p.uid = uid
       THEN LET p == CHOOSE q \in players : q.uid = uid
            IN <<[sid |-> PendingSid(uid), name |-> p.name,
                  score |-> p.score, uid |-> uid]>>
               \o PendingUsers(players, uid + 1)
       ELSE PendingUsers(players, uid + 1)

\* { ...fireRoom, users: new Map(), skipVotes: new Set() } : the snapshot
\* has no hostId, so it is undefined in the rebuilt room
Reconstruct(doc) ==
  [hostId |-> NoId,
   hostUid |-> doc.hostUid,
   users |-> PendingUsers(doc.players, 1),
   mode |-> doc.mode,
   gameType |-> doc.gameType,
   tracks |-> doc.tracks,
   answersKnown |-> doc.answersKnown,
   roundCount |-> doc.roundCount,
   currentRound |-> doc.currentRound,
   skipVotes |-> {},
   players |-> doc.players]

\* the registry after getRoom(code): the room in memory, else the room
\* rebuilt from its snapshot and inserted, else nothing
getRoom(reg, doc) ==
  IF reg # <<>> THEN reg
  ELSE IF doc # <<>> THEN <<Reconstruct(doc[1])>>
  ELSE <<>>

\* the registry every handler works on
Loaded == getRoom(rooms, store)

(***************************************************************************)
(* Events (io.to(code).emit)                                               *)
(***************************************************************************)
\* broadcastRoom(code): the payload is a projection of the room in the
\* registry at that moment, so the event carries no copy of it
RoomState == [type |-> "roomState"]
Chat(kind, name) == [type |-> "chat", kind |-> kind, name |-> name]
Buzzed(b) == [type |-> "buzzed", id |-> b.currentId, name |-> b.currentName,
              at |-> b.tsFirst]
QueueNames(queue) == [i \in 1..Len(queue) |-> queue[i].name]
QueueUpdated(b) == [type |-> "queueUpdated", queue |-> QueueNames(b.queue)]
Simple(type) == [type |-> type]
\* the gameOver of a game that names nobody
GameOverBare(users) == [type |-> "gameOver", scores |-> <<>>]

\* gameOver: name and score of every member, in the order of the Map
GameOver(users) ==
  [type |-> "gameOver",
   scores |-> [i \in 1..Len(users) |->
                 [name |-> users[i].name, score |-> users[i].score]]]
RoundEnd(winner, track, elapsedMs, skipped) ==
  [type |-> "roundEnd", winner |-> winner, answer |-> track,
   elapsedMs |-> elapsedMs, skipped |-> skipped]

\* if (p.uid) updateLeaderboardScore(p.uid, p.name, inc): the increment
\* the leaderboard document of the user's account is asked to add
Leaderboard(user, inc) ==
  IF user.uid # NoId
  THEN <<[type |-> "leaderboard", uid |-> user.uid, name |-> user.name,
          inc |-> inc]>>
  ELSE <<>>

\* what the last handler was and how it answered its caller sid
Op(op, sid, ack) == [op |-> op, ack |-> ack]

\* a call that is refused: only the load by getRoom may have changed the
\* registry, nothing is stored and nothing is sent
Refuse(op, sid) ==
  /\ rooms' = Loaded
  /\ emitted' = <<>>
  /\ last' = Op(op, sid, "error")
  /\ UNCHANGED <<store, conn, now, yt, pending, crashed, hist>>

\* a handler that ran to its end on the room r with the events ev
Done(op, sid, ack, r, ev) ==
  /\ rooms' = <<r>>
  /\ store' = saveRoom(store, r)
  /\ emitted' = ev
  /\ last' = Op(op, sid, ack)

\* the socket s is connected
Alive(s) == ~crashed /\ s \in 1..conn.opened /\ s \notin conn.closed


(***************************************************************************)
(* createRoom, joinRoom, disconnect, kickPlayer (server/server.js)         *)
(***************************************************************************)
NewRoom(s) ==
  [hostId |-> s,
   hostUid |-> NoId,
   users |-> <<>>,
   mode |-> "",
   gameType |-> "text",
   tracks |-> <<>>,
   answersKnown |-> FALSE,
   roundCount |-> 0,
   currentRound |-> <<>>,
   skipVotes |-> {},
   players |-> {}]

\* the counter of hist stops counting here
HistCap == 2

NoHist == [firstBuzzAt |-> NoTime, guessWins |-> 0]

\* the code of a new room is fresh: no room and no snapshot has it
CreateRoom(s) ==
  /\ Alive(s)
  /\ rooms = <<>>
  /\ store = <<>>
  /\ Done("createRoom", s, "ok", NewRoom(s), <<RoomState>>)
  /\ UNCHANGED <<conn, now, yt, pending, crashed, hist>>

\* name?.trim() || "Gracz"
JoinName(name) == IF name = "" THEN "Gracz" ELSE name

\* a join that notes the account of the host and never moves the host
JoinHostKept(r, s, uid) ==
  IF uid # NoId /\ r.hostUid = NoId /\ r.hostId = s
  THEN [r EXCEPT !.hostUid = uid]
  ELSE r

\* the host bookkeeping of a join with a verified uid
JoinHost(r, s, uid) ==
  IF uid = NoId THEN r
  ELSE IF r.hostUid = uid THEN [r EXCEPT !.hostId = s]
  ELSE IF r.hostUid = NoId /\ r.hostId = s THEN [r EXCEPT !.hostUid = uid]
  ELSE r

\* the score a new member starts with: the one of the snapshot the room was
\* rebuilt from when it names the uid
JoinScore(r, uid) ==
  IF uid # NoId /\ \E p \in r.players : p.uid = uid
  THEN (CHOOSE p \in r.players : p.uid = uid).score
  ELSE 0

\* uid = NoId: no token, or a token that does not verify
JoinRoom(s, name, uid) ==
  /\ Alive(s)
  /\ IF Loaded = <<>> THEN Refuse("joinRoom", s)
     ELSE LET r == JoinHost(Loaded[1], s, uid)
              k == IF uid = NoId THEN 0 ELSE FindByUid(r.users, uid)
          IN /\ IF k > 0
                THEN Done("joinRoom", s, "recovered",
                          [r EXCEPT !.users =
                             UsersSet(UsersDelete(r.users, r.users[k].sid),
                                      [r.users[k] EXCEPT !.sid = s])],
                          <<RoomState>>)
                ELSE Done("joinRoom", s, "ok",
                          [r EXCEPT !.users =
                             UsersSet(r.users,
                                      [sid |-> s, name |-> JoinName(name),
                                       score |-> JoinScore(r, uid), uid |-> uid])],
                          <<Chat("joined", JoinName(name)), RoomState>>)
             /\ UNCHANGED <<conn, now, yt, pending, crashed, hist>>

\* the buzzer tidy-up of disconnect: the buzzer afterwards, the events,
\* and whether `r.buzzer.queue` was read after `r.buzzer = null`
TidyBuzzer(b, s) ==
  IF b.currentId = s /\ b.queue = <<>>
  THEN [buzzer |-> <<>>, ev |-> <<Simple("buzzCleared")>>, threw |-> TRUE]
  ELSE LET b1 == IF b.currentId = s
                 THEN [b EXCEPT !.currentId = Head(b.queue).id,
                                !.currentName = Head(b.queue).name,
                                !.queue = Tail(b.queue)]
                 ELSE b
           b2 == [b1 EXCEPT !.queue = SelectSeq(b1.queue, LAMBDA p : p.id # s)]
       IN [buzzer |-> <<b2>>,
           ev |-> (IF b.currentId = s THEN <<Buzzed(b1)>> ELSE <<>>)
                  \o (IF Len(b2.queue) # Len(b1.queue)
                      THEN <<QueueUpdated(b2)>> ELSE <<>>)
                  \o (IF b.currentId = s \/ Len(b2.queue) # Len(b1.queue)
                      THEN <<RoomState>> ELSE <<>>),
           threw |-> FALSE]

\* room.hostId = [...room.users.keys()][0] || null when the host left
TransferHost(r, s) ==
  IF r.hostId = s
  THEN [r EXCEPT !.hostId = IF r.users = <<>> THEN NoId ELSE r.users[1].sid]
  ELSE r

\* a suspended handler keeps its room object when the registry drops it
Orphaned(r) ==
  {IF p.kind # "load" /\ p.obj = <<>> THEN [p EXCEPT !.obj = <<r>>] ELSE p :
     p \in pending}

Disconnect(s) ==
  /\ Alive(s)
  /\ conn' = [conn EXCEPT !.closed = @ \cup {s}]
  /\ last' = Op("disconnect", s, "none")
  /\ UNCHANGED <<store, now, yt, hist>>
  /\ IF rooms = <<>> \/ ~UsersHas(rooms[1].users, s)
     THEN /\ emitted' = <<>>
          /\ UNCHANGED <<rooms, pending, crashed>>
     ELSE LET r0 == rooms[1]
              left == Chat("left", UsersGet(r0.users, s).name)
              r1 == [r0 EXCEPT !.users = UsersDelete(r0.users, s)]
              hasBuzzer == r1.currentRound # <<>> /\ r1.currentRound[1].buzzer # <<>>
              tidy == IF hasBuzzer THEN TidyBuzzer(r1.currentRound[1].buzzer[1], s)
                      ELSE [buzzer |-> <<>>, ev |-> <<>>, threw |-> FALSE]
              r2 == IF hasBuzzer
                    THEN [r1 EXCEPT !.currentRound[1].buzzer = tidy.buzzer]
                    ELSE r1
              r3 == TransferHost(r2, s)
          IN IF tidy.threw
             THEN \* TypeError: the handler stops, nothing catches it
                  /\ rooms' = <<r2>>
                  /\ emitted' = <<left>> \o tidy.ev
                  /\ crashed' = TRUE
                  /\ UNCHANGED pending
             ELSE /\ crashed' = crashed
                  /\ IF r3.users = <<>>
                     THEN /\ rooms' = <<>>
                          /\ pending' = Orphaned(r3)
                          /\ emitted' = <<left>> \o tidy.ev
                     ELSE /\ rooms' = <<r3>>
                          /\ pending' = pending
                          /\ emitted' = <<left>> \o tidy.ev \o <<RoomState>>

\* target: any key of room.users, a socket id or a pending key
KickPlayer(s, target) ==
  /\ Alive(s)
  /\ IF Loaded = <<>> THEN Refuse("kickPlayer", s)
     ELSE IF Loaded[1].hostId # s THEN Refuse("kickPlayer", s)
     ELSE IF ~UsersHas(Loaded[1].users, target) THEN Refuse("kickPlayer", s)
     ELSE IF target = s THEN Refuse("kickPlayer", s)
     ELSE /\ Done("kickPlayer", s, "ok",
                  [Loaded[1] EXCEPT !.users = UsersDelete(@, target)],
                  <<Simple("kicked"),
                    Chat("kicked", UsersGet(Loaded[1].users, target).name),
                    RoomState>>)
          /\ UNCHANGED <<conn, now, yt, pending, crashed, hist>>


(***************************************************************************)
(* buildPlaybackForTrack, triggerNextRound, startGame, nextRound           *)
(***************************************************************************)
\* the breaker stays tripped for 12 hours; in clock ticks of the model
QuotaDelay == 1

\* process.env.YT_API_KEY is set
HasYtKey == TRUE

\* how YouTube.searchOne (the youtube-sr scraper) returns: with a video,
\* with nothing, or by throwing
SearchOutcomes == {"hit", "none", "err"}

\* how the search of the official API returns: with a video, with
\* nothing, failing with quotaExceeded or failing otherwise
ApiOutcomes == {"hit", "none", "quota", "err"}

\* a check that closes the breaker whatever the time is
checkYtQuotaOpen(y, time) == [y EXCEPT !.exceeded = FALSE]

\* the breaker after checkYtQuota(); the call returns ~exceeded of it
checkYtQuota(y, time) ==
  IF y.exceeded /\ time > y.resetTime THEN [y EXCEPT !.exceeded = FALSE] ELSE y

\* a resolver that takes the preview before the video id
buildPlaybackPreviewFirst(t, mode, y, time) ==
  [yt |-> y,
   pb |-> IF TrackHasPreview(t) THEN "audio"
          ELSE IF TrackHasVideoId(t) THEN "youtube"
          ELSE "search"]

\* buildPlaybackForTrack up to its first await: the playback of track t,
\* "none" for null, or "search" when the call waits for the scraper; yt:
\* the breaker afterwards
buildPlaybackForTrack(t, mode, y, time) ==
  IF mode = "spotify"
  THEN [yt |-> y,
        pb |-> IF TrackHasVideoId(t) THEN "youtube"
               ELSE IF TrackHasPreview(t) THEN "audio"
               ELSE "search"]
  ELSE IF mode = "youtube"
  THEN IF TrackSource(t) = "youtube" THEN [yt |-> y, pb |-> "youtube"]
       ELSE IF TrackTitle(t) = <<>> THEN [yt |-> y, pb |-> "none"]
       ELSE IF ~HasYtKey THEN [yt |-> y, pb |-> "none"]
       ELSE IF checkYtQuota(y, time).exceeded
       THEN [yt |-> checkYtQuota(y, time), pb |-> "none"]
       ELSE [yt |-> checkYtQuota(y, time), pb |-> "search"]
  ELSE [yt |-> y, pb |-> "none"]

\* the while loop of triggerNextRound from position i (1-based) on, as far
\* as it runs without waiting: the position of the first track with a
\* playback or with a search to wait for (0: none) and the breaker
RECURSIVE Resolve(_, _, _, _)
Resolve(r, i, y, time) ==
  IF i > Len(r.tracks) THEN [idx |-> 0, pb |-> "none", yt |-> y]
  ELSE LET res == buildPlaybackForTrack(r.tracks[i], r.mode, y, time)
       IN IF res.pb # "none" THEN [idx |-> i, pb |-> res.pb, yt |-> res.yt]
          ELSE Resolve(r, i + 1, res.yt, time)

\* a round that starts paused
NewRoundPaused(t, pb, time) ==
  [startedAt |-> time, track |-> t, playback |-> pb,
   solved |-> FALSE, paused |-> TRUE, buzzer |-> <<>>]

\* the currentRound that triggerNextRound commits (answer and hint are the
\* title and artist of the track)
NewRound(t, pb, time) ==
  [startedAt |-> time, track |-> t, playback |-> pb,
   solved |-> FALSE, paused |-> FALSE, buzzer |-> <<>>]

\* the sequences of the same length over the same tracks
ShufflesAny(tracks) == [1..Len(tracks) -> Range(tracks)]

\* the permutations of a sequence: what [...tracks].sort(() => Math.random()
\* - 0.5) can return
Shuffles(tracks) ==
  {sh \in [1..Len(tracks) -> Range(tracks)] :
     \E f \in [1..Len(tracks) -> 1..Len(tracks)] :
       /\ \A i, j \in 1..Len(tracks) : i # j => f[i] # f[j]
       /\ \A i \in 1..Len(tracks) : sh[i] = tracks[f[i]]}

\* the track lists a host submits: any sequence of distinct tracks
TrackLists ==
  UNION {{tl \in [1..n -> TrackIds] : \A i, j \in 1..n : i # j => tl[i] # tl[j]} :
           n \in 0..NumTracks}

startGameRoom(r, mode, shuffled, gameType) ==
  [r EXCEPT !.mode = mode,
            !.gameType = IF gameType = "" THEN "text" ELSE gameType,
            !.tracks = shuffled,
            !.answersKnown = TRUE,
            !.currentRound = <<>>,
            !.roundCount = 0,
            !.skipVotes = {}]

\* the handler does not look at room.hostId
StartGame(s, mode, tracks, gameType) ==
  /\ Alive(s)
  /\ IF Loaded = <<>> THEN Refuse("startGame", s)
     ELSE IF Len(tracks) < 1 THEN Refuse("startGame", s)
     ELSE \E shuffled \in Shuffles(tracks) :
            /\ Done("startGame", s, "ok",
                    startGameRoom(Loaded[1], mode, shuffled, gameType),
                    <<Simple("gameStarted"), RoomState>>)
            /\ hist' = NoHist
            /\ UNCHANGED <<conn, now, yt, pending, crashed>>

\* a suspended handler: kind says where it waits ("load": in
\* getRoomFromFirestore, "save": in saveRoom of guess, "sr": in the scraper
\* search, "api": in the search of the official API, "verify": in
\* verifyIdToken of joinRoom); sid is its caller, g its guess (for a
\* join: the uid of its token), track, idx and mode the track, the
\* position and the mode of the search, at the startedAt of the round a
\* guess ended, winner the name it read (for a join: the name it asks
\* for), doc the document asked for, obj its room object once the
\* registry holds another one
NoRecord ==
  [kind |-> "", sid |-> NoId, g |-> 0, track |-> 0, idx |-> 0, mode |-> "",
   at |-> NoTime, obj |-> <<>>, doc |-> <<>>, winner |-> NoName]

\* nextRound handlers that may be suspended in a search at a time
MaxResolving == 2

Resolving(pend) == {p \in pend : p.kind \in {"sr", "api"}}

\* the registry after a handler wrote r to its room object: the object of
\* the registry (own) or one the registry no longer holds
Registry(own, r) == IF own THEN <<r>> ELSE rooms

\* triggerNextRound from line 456 on, for the caller s on its room object
\* r: the round of track t at position i is committed, stored and
\* announced.  The handler only reads after the write, and the write and
\* the roundStart are taken in one step with the commit
NextRoundCommit(s, r, own, i, t, pb, y, pend) ==
  LET r2 == [r EXCEPT !.roundCount = i,
                      !.currentRound = <<NewRound(t, pb, now)>>,
                      !.skipVotes = {}]
  IN /\ rooms' = Registry(own, r2)
     /\ store' = saveRoom(store, r2)
     /\ emitted' = <<[type |-> "roundStart", startedAt |-> now,
                      playback |-> pb]>>
     /\ last' = Op("nextRound", s, "ok")
     /\ yt' = y
     /\ pending' = pend
     /\ hist' = NoHist

\* triggerNextRound from the loop at position i on: it gives up, commits a
\* round or waits for the scraper.  pend: the other suspended handlers
NextRoundFrom(s, r, own, i, y, pend) ==
  LET res == Resolve(r, i, y, now)
  IN IF res.idx = 0
     THEN /\ rooms' = Registry(own, r)
          /\ yt' = res.yt
          /\ emitted' = <<>>
          /\ last' = Op("nextRound", s, "error")
          /\ pending' = pend
          /\ UNCHANGED <<store, hist>>
     ELSE IF res.pb = "search"
     THEN /\ Cardinality(Resolving(pend)) < MaxResolving
          /\ rooms' = Registry(own, r)
          /\ yt' = res.yt
          /\ emitted' = <<>>
          /\ last' = Op("nextRound", s, "searching")
          /\ pending' = pend \cup
               {[NoRecord EXCEPT !.kind = "sr", !.sid = s, !.idx = res.idx,
                                 !.track = r.tracks[res.idx], !.mode = r.mode,
                                 !.obj = IF own THEN <<>> ELSE <<r>>]}
          /\ UNCHANGED <<store, hist>>
     ELSE NextRoundCommit(s, r, own, res.idx, r.tracks[res.idx], res.pb,
                          res.yt, pend)

NextRound(s) ==
  /\ Alive(s)
  /\ IF Loaded = <<>> THEN Refuse("nextRound", s)
     ELSE IF Loaded[1].hostId # s THEN Refuse("nextRound", s)
     ELSE IF Loaded[1].roundCount >= Len(Loaded[1].tracks)
     THEN /\ rooms' = Loaded
          /\ emitted' = <<GameOver(Loaded[1].users)>>
          /\ last' = Op("nextRound", s, "gameOver")
          /\ UNCHANGED <<store, conn, now, yt, pending, crashed, hist>>
     ELSE /\ NextRoundFrom(s, Loaded[1], TRUE, Loaded[1].roundCount + 1, yt,
                           pending)
          /\ UNCHANGED <<conn, now, crashed>>

\* the room object of a suspended handler
RoomOf(p) == IF p.obj # <<>> THEN p.obj[1] ELSE rooms[1]

\* joinRoom handlers that may wait for verifyIdToken at a time
MaxVerifying == 2

Verifying == {p \in pending : p.kind = "verify"}

\* joinRoom with a token, up to `await verifyIdToken`: the handler has its
\* room object and waits; g holds the uid the token will verify to (NoId:
\* it will not verify), winner the name of the request
JoinAsk(s, name, uid) ==
  /\ Alive(s)
  /\ IF Loaded = <<>> THEN Refuse("joinRoom", s)
     ELSE /\ Cardinality(Verifying) < MaxVerifying
          /\ rooms' = Loaded
          /\ pending' = pending \cup
               {[NoRecord EXCEPT !.kind = "verify", !.sid = s, !.g = uid,
                                 !.winner = name]}
          /\ emitted' = <<>>
          /\ last' = Op("joinRoom", s, "verifying")
          /\ UNCHANGED <<store, conn, now, yt, crashed, hist>>

\* joinRoom after `await verifyIdToken`, lines 529 to 579 in one
\* synchronous stretch on the room object of the handler, whatever became
\* of the connection meanwhile; the handlers that wait with the same
\* dropped room object see what this one wrote to it
JoinVerified(p) ==
  /\ ~crashed
  /\ p \in Verifying
  /\ LET own == p.obj = <<>>
         r == JoinHost(RoomOf(p), p.sid, p.g)
         k == IF p.g = NoId THEN 0 ELSE FindByUid(r.users, p.g)
         r2 == IF k > 0
               THEN [r EXCEPT !.users =
                       UsersSet(UsersDelete(r.users, r.users[k].sid),
                                [r.users[k] EXCEPT !.sid = p.sid])]
               ELSE [r EXCEPT !.users =
                       UsersSet(r.users,
                                [sid |-> p.sid, name |-> JoinName(p.winner),
                                 score |-> JoinScore(r, p.g), uid |-> p.g])]
     IN /\ rooms' = Registry(own, r2)
        /\ store' = saveRoom(store, r2)
        /\ emitted' = IF k > 0 THEN <<RoomState>>
                      ELSE <<Chat("joined", JoinName(p.winner)), RoomState>>
        /\ last' = Op("joinRoom", p.sid, IF k > 0 THEN "recovered" ELSE "ok")
        /\ pending' = {IF ~own /\ q.obj = p.obj
                        THEN [q EXCEPT !.obj = <<r2>>] ELSE q :
                          q \in pending \ {p}}
        /\ UNCHANGED <<conn, now, yt, crashed, hist>>

\* the scraper returns to the handler p (line 120 or 160): a video is the
\* playback of the round; without one the youtube mode asks checkYtQuota
\* again and calls the official API, and every other case goes on with
\* the next track
SearchReturns(p, out) ==
  /\ ~crashed
  /\ p \in pending
  /\ p.kind = "sr"
  /\ UNCHANGED <<conn, now, crashed>>
  /\ IF out = "hit"
     THEN NextRoundCommit(p.sid, RoomOf(p), p.obj = <<>>, p.idx, p.track,
                          "youtube", yt, pending \ {p})
     ELSE IF p.mode = "youtube" /\ out = "none"
     THEN IF ~checkYtQuota(yt, now).exceeded
          THEN /\ pending' = (pending \ {p}) \cup {[p EXCEPT !.kind = "api"]}
               /\ yt' = checkYtQuota(yt, now)
               /\ emitted' = <<>>
               /\ last' = Op("nextRound", p.sid, "calling")
               /\ UNCHANGED <<rooms, store, hist>>
          ELSE NextRoundFrom(p.sid, RoomOf(p), p.obj = <<>>, p.idx + 1,
                             checkYtQuota(yt, now), pending \ {p})
     ELSE NextRoundFrom(p.sid, RoomOf(p), p.obj = <<>>, p.idx + 1, yt,
                        pending \ {p})

\* the breaker as line 192 trips it
Tripped(time) == [exceeded |-> TRUE, resetTime |-> time + QuotaDelay]

\* the official API returns to the handler p (line 167): a video is the
\* playback of the round, quotaExceeded trips the breaker, and without a
\* video the loop goes on with the next track
ApiReturns(p, out) ==
  /\ ~crashed
  /\ p \in pending
  /\ p.kind = "api"
  /\ UNCHANGED <<conn, now, crashed>>
  /\ IF out = "hit"
     THEN NextRoundCommit(p.sid, RoomOf(p), p.obj = <<>>, p.idx, p.track,
                          "youtube", yt, pending \ {p})
     ELSE NextRoundFrom(p.sid, RoomOf(p), p.obj = <<>>, p.idx + 1,
                        IF out = "quota" THEN Tripped(now) ELSE yt,
                        pending \ {p})


(***************************************************************************)
(* guess (text mode)                                                       *)
(***************************************************************************)
\* guess handlers that may be suspended in `await saveRoom` at a time
MaxPending == 1

\* guess handlers that may be suspended in `await getRoomFromFirestore` at
\* a time
MaxLoading == 1

\* the points of the handler: the text is matched as a title, with an
\* empty artist guess
guessPoints(guessText, artist, title) ==
  LET m == getDetailedMatch(<<>>, guessText, artist, title)
  IN IF m.artistCorrect /\ m.titleCorrect THEN 10
     ELSE IF m.titleCorrect THEN 5
     ELSE 0

\* the points of every guess text on every track, computed once
PointsTable ==
  [g \in GuessIds, t \in TrackIds |->
     guessPoints(GuessText(g), TrackArtist(t), TrackTitle(t))]

\* the guard of the handler: no round, or a finished one
guessRefused(r) ==
  \/ r.currentRound = <<>>
  \/ r.currentRound[1].solved
  \/ r.gameType = "buzzer"

\* player.score += points on the member with key sid, if there is one
AddScore(users, sid, points) ==
  IF UsersHas(users, sid)
  THEN [users EXCEPT ![UserIdx(users, sid)].score = @ + points]
  ELSE users

\* the suspended guess handlers of either kind
Loading == {p \in pending : p.kind = "load"}
Saving == {p \in pending : p.kind = "save"}

\* the handler from the return of getRoom up to `await saveRoom`, on the
\* room r of the registry: the round is marked solved and the caller
\* credited in one synchronous stretch.  pend: the other suspended handlers
GuessRun(s, g, r, pend) ==
  IF guessRefused(r)
  THEN /\ rooms' = <<r>>
       /\ emitted' = <<>>
       /\ last' = Op("guess", s, "error")
       /\ pending' = pend
       /\ UNCHANGED <<store, hist>>
  ELSE LET t == r.currentRound[1].track
           points == PointsTable[g, t]
       IN IF points = 0
          THEN /\ rooms' = <<r>>
               /\ emitted' = <<>>
               /\ last' = Op("guess", s, "wrong")
               /\ pending' = pend
               /\ UNCHANGED <<store, hist>>
          ELSE /\ Cardinality({p \in pend : p.kind = "save"}) < MaxPending
               /\ UsersHas(r.users, s) =>
                    UsersGet(r.users, s).score + points <= MaxScore
               /\ Done("guess", s, "saving",
                       [r EXCEPT !.currentRound[1].solved = TRUE,
                                 !.users = AddScore(@, s, points)],
                       IF UsersHas(r.users, s)
                       THEN Leaderboard(UsersGet(r.users, s), points)
                       ELSE <<>>)
               /\ pending' = pend \cup
                    {[NoRecord EXCEPT
                        !.kind = "save", !.sid = s, !.track = t,
                        !.at = r.currentRound[1].startedAt,
                        !.winner = IF UsersHas(r.users, s)
                                   THEN UsersGet(r.users, s).name
                                   ELSE "Ktos"]}
               /\ hist' = [hist EXCEPT !.guessWins = Min2(@ + 1, HistCap)]

\* the handler up to its first suspension: with the room in the registry
\* it runs on; without it getRoom asks the store and the handler waits
Guess(s, g) ==
  /\ Alive(s)
  /\ UNCHANGED <<conn, now, yt, crashed>>
  /\ IF rooms # <<>> THEN GuessRun(s, g, rooms[1], pending)
     ELSE IF store = <<>>
     THEN /\ emitted' = <<>>
          /\ last' = Op("guess", s, "error")
          /\ UNCHANGED <<rooms, store, pending, hist>>
     ELSE /\ Cardinality(Loading) < MaxLoading
          /\ pending' = pending \cup
               {[NoRecord EXCEPT !.kind = "load", !.sid = s, !.g = g,
                                 !.doc = store]}
          /\ emitted' = <<>>
          /\ last' = Op("guess", s, "loading")
          /\ UNCHANGED <<rooms, store, hist>>

\* a handler suspended after it got its room keeps its room object when
\* the registry gets another one
Detached(pend, reg) ==
  {IF p.kind # "load" /\ p.obj = <<>> /\ reg # <<>>
   THEN [p EXCEPT !.obj = reg] ELSE p : p \in pend}

\* the handler after `await getRoomFromFirestore`: the document is the one
\* of the request or the one of now; the room rebuilt from it replaces
\* whatever the registry holds, and the handler runs on
GuessLoaded(p) ==
  /\ ~crashed
  /\ p \in Loading
  /\ UNCHANGED <<conn, now, yt, crashed>>
  /\ \E doc \in {p.doc, store} :
       GuessRun(p.sid, p.g, Reconstruct(doc[1]),
                Detached(pending \ {p}, rooms))

\* the handler after `await saveRoom`: it reads the round of its room
\* object again, sends roundEnd and broadcasts the room of the registry
GuessEmit(p) ==
  /\ ~crashed
  /\ p \in Saving
  /\ pending' = pending \ {p}
  /\ LET r == RoomOf(p)
     IN IF r.currentRound = <<>>
        THEN \* TypeError on room.currentRound.startedAt
             /\ crashed' = TRUE
             /\ emitted' = <<>>
             /\ last' = Op("guessEmit", p.sid, "none")
             /\ UNCHANGED hist
        ELSE /\ crashed' = crashed
             /\ emitted' =
                  <<RoundEnd(p.winner, p.track,
                             now - r.currentRound[1].startedAt, FALSE)>>
                  \o (IF rooms # <<>> THEN <<RoomState>> ELSE <<>>)
             /\ last' = Op("guessEmit", p.sid, "ok")
             /\ hist' = hist
  /\ UNCHANGED <<rooms, store, conn, now, yt>>

(***************************************************************************)
(* voteSkip                                                                *)
(***************************************************************************)
\* voteCount > totalPlayers / 2
skipPasses(r) == 2 * Cardinality(r.skipVotes) > Len(r.users)

VoteSkip(s) ==
  /\ Alive(s)
  /\ IF Loaded = <<>> THEN Refuse("voteSkip", s)
     ELSE IF Loaded[1].currentRound = <<>> THEN Refuse("voteSkip", s)
     ELSE IF Loaded[1].currentRound[1].solved THEN Refuse("voteSkip", s)
     ELSE LET r == [Loaded[1] EXCEPT !.skipVotes = @ \cup {s}]
              cr == r.currentRound[1]
          IN /\ IF skipPasses(r)
                THEN /\ Done("voteSkip", s, "ok",
                             [r EXCEPT !.currentRound[1].solved = TRUE],
                             <<RoomState, Chat("skipped", NoName),
                               RoundEnd(NoName, cr.track, now - cr.startedAt, TRUE),
                               RoomState>>)
                     /\ hist' = hist
                ELSE /\ rooms' = <<r>>
                     /\ emitted' = <<RoomState>>
                     /\ last' = Op("voteSkip", s, "ok")
                     /\ UNCHANGED <<store, hist>>
             /\ UNCHANGED <<conn, now, yt, pending, crashed>>


(***************************************************************************)
(* Buzzer mode: buzz, passBuzzer, awardPoints, deductPoints,               *)
(* endRoundManual, hostVerifyGuess                                         *)
(***************************************************************************)
\* the guards of buzz, in the order of the handler
buzzRefused(r, s) ==
  \/ r.currentRound = <<>>
  \/ r.gameType # "buzzer"
  \/ ~UsersHas(r.users, s)

\* a check that looks at the holder only
buzzKnownAsHolder(b, s) == b.currentId = s

\* isCurrent || inQueue
buzzKnown(b, s) ==
  \/ b.currentId = s
  \/ \E i \in 1..Len(b.queue) : b.queue[i].id = s

\* the buzzer after an accepted buzz of the member s named name
buzzAccept(cr, s, name, time) ==
  IF cr.buzzer = <<>>
  THEN <<[tsFirst |-> time, currentId |-> s, currentName |-> name, queue |-> <<>>]>>
  ELSE <<[cr.buzzer[1] EXCEPT !.queue = Append(@, [id |-> s, name |-> name])]>>

Buzz(s) ==
  /\ Alive(s)
  /\ IF Loaded = <<>> THEN Refuse("buzz", s)
     ELSE IF buzzRefused(Loaded[1], s) THEN Refuse("buzz", s)
     ELSE LET r == Loaded[1]
              cr == r.currentRound[1]
              name == UsersGet(r.users, s).name
              b == buzzAccept(cr, s, name, now)
          IN IF cr.buzzer = <<>>
             THEN /\ Done("buzz", s, "first",
                          [r EXCEPT !.currentRound[1].buzzer = b,
                                    !.currentRound[1].paused = TRUE],
                          <<Simple("pausePlayback"), Buzzed(b[1]), QueueUpdated(b[1])>>)
                  /\ hist' = [hist EXCEPT !.firstBuzzAt =
                                IF @ = NoTime THEN now ELSE @]
                  /\ UNCHANGED <<conn, now, yt, pending, crashed>>
             ELSE IF ~buzzKnown(cr.buzzer[1], s)
             THEN /\ Done("buzz", s, "queued",
                          [r EXCEPT !.currentRound[1].buzzer = b],
                          <<QueueUpdated(b[1])>>)
                  /\ UNCHANGED <<conn, now, yt, pending, crashed, hist>>
             ELSE /\ rooms' = Loaded
                  /\ emitted' = <<>>
                  /\ last' = Op("buzz", s, "duplicate")
                  /\ UNCHANGED <<store, conn, now, yt, pending, crashed, hist>>

passRefused(r, s) ==
  \/ r.hostId # s
  \/ r.gameType # "buzzer"
  \/ r.currentRound = <<>>
  \/ r.currentRound[1].buzzer = <<>>

\* a passBuzzer that clears the buzzer whatever the queue holds
PassBuzzerClears(s) ==
  /\ Alive(s)
  /\ IF Loaded = <<>> THEN Refuse("passBuzzer", s)
     ELSE IF passRefused(Loaded[1], s) THEN Refuse("passBuzzer", s)
     ELSE /\ Done("passBuzzer", s, "cleared",
                  [Loaded[1] EXCEPT !.currentRound[1].buzzer = <<>>,
                                    !.currentRound[1].paused = FALSE],
                  <<Simple("buzzCleared"), Simple("resumePlayback")>>)
          /\ UNCHANGED <<conn, now, yt, pending, crashed, hist>>

PassBuzzer(s) ==
  /\ Alive(s)
  /\ IF Loaded = <<>> THEN Refuse("passBuzzer", s)
     ELSE IF passRefused(Loaded[1], s) THEN Refuse("passBuzzer", s)
     ELSE LET r == Loaded[1]
              b == r.currentRound[1].buzzer[1]
              b1 == [b EXCEPT !.currentId = Head(b.queue).id,
                              !.currentName = Head(b.queue).name,
                              !.queue = Tail(b.queue)]
          IN /\ IF Len(b.queue) > 0
                THEN Done("passBuzzer", s, "passed",
                          [r EXCEPT !.currentRound[1].buzzer = <<b1>>,
                                    !.currentRound[1].paused = TRUE],
                          <<Buzzed(b1), QueueUpdated(b1), Simple("pausePlayback")>>)
                ELSE Done("passBuzzer", s, "cleared",
                          [r EXCEPT !.currentRound[1].buzzer = <<>>,
                                    !.currentRound[1].paused = FALSE],
                          <<Simple("buzzCleared"), Simple("resumePlayback")>>)
             /\ UNCHANGED <<conn, now, yt, pending, crashed, hist>>

\* Number(points) || 10
pointsOf(points) == IF points = 0 THEN 10 ELSE points

\* p.score += pts
awardScore(score, pts) == score + pts

\* p.score -= pts; if (p.score < 0) p.score = 0
deductScore(score, pts) == IF score - pts < 0 THEN 0 ELSE score - pts

\* the guards awardPoints and deductPoints share
pointsRefused(r, s, playerName) ==
  \/ r.hostId # s
  \/ r.gameType # "buzzer"
  \/ FindByName(r.users, playerName) = 0

AwardPoints(s, playerName, points) ==
  /\ Alive(s)
  /\ IF Loaded = <<>> THEN Refuse("awardPoints", s)
     ELSE IF pointsRefused(Loaded[1], s, playerName) THEN Refuse("awardPoints", s)
     ELSE LET r == Loaded[1]
              k == FindByName(r.users, playerName)
              score == awardScore(r.users[k].score, pointsOf(points))
          IN /\ score \in (0 - MaxScore)..MaxScore
             /\ Done("awardPoints", s, "ok",
                     [r EXCEPT !.users[k].score = score],
                     Leaderboard(r.users[k], pointsOf(points)) \o <<RoomState>>)
             /\ UNCHANGED <<conn, now, yt, pending, crashed, hist>>

DeductPoints(s, playerName, points) ==
  /\ Alive(s)
  /\ IF Loaded = <<>> THEN Refuse("deductPoints", s)
     ELSE IF pointsRefused(Loaded[1], s, playerName) THEN Refuse("deductPoints", s)
     ELSE LET r == Loaded[1]
              k == FindByName(r.users, playerName)
              score == deductScore(r.users[k].score, pointsOf(points))
          IN /\ score \in (0 - MaxScore)..MaxScore
             /\ Done("deductPoints", s, "ok",
                     [r EXCEPT !.users[k].score = score],
                     Leaderboard(r.users[k], 0 - pointsOf(points))
                       \o <<RoomState>>)
             /\ UNCHANGED <<conn, now, yt, pending, crashed, hist>>

\* the guards of endRoundManual
endRefused(r, s) ==
  \/ r.currentRound = <<>>
  \/ r.hostId # s
  \/ r.gameType # "buzzer"

\* tsFirst ? tsFirst - startedAt : Date.now() - startedAt
manualElapsed(cr, time) ==
  IF cr.buzzer # <<>> /\ cr.buzzer[1].tsFirst # 0
  THEN cr.buzzer[1].tsFirst - cr.startedAt
  ELSE time - cr.startedAt

\* a round that is always ended without a winner
manualWinnerNone(cr) == NoName

\* room.currentRound.buzzer?.currentName || null
manualWinner(cr) ==
  IF cr.buzzer # <<>> THEN cr.buzzer[1].currentName ELSE NoName

EndRoundManual(s) ==
  /\ Alive(s)
  /\ IF Loaded = <<>> THEN Refuse("endRoundManual", s)
     ELSE IF endRefused(Loaded[1], s) THEN Refuse("endRoundManual", s)
     ELSE LET r == Loaded[1]
              cr == r.currentRound[1]
          IN /\ Done("endRoundManual", s, "ok",
                     [r EXCEPT !.currentRound[1].solved = TRUE],
                     <<RoundEnd(manualWinner(cr), cr.track,
                                manualElapsed(cr, now), FALSE),
                       RoomState>>)
             /\ hist' = hist
             /\ UNCHANGED <<conn, now, yt, pending, crashed>>

\* the handler answers with the match and changes nothing
HostVerifyGuess(s, g) ==
  /\ Alive(s)
  /\ IF Loaded = <<>> THEN Refuse("hostVerifyGuess", s)
     ELSE IF Loaded[1].hostId # s THEN Refuse("hostVerifyGuess", s)
     ELSE IF Loaded[1].currentRound = <<>> THEN Refuse("hostVerifyGuess", s)
     ELSE /\ rooms' = Loaded
          /\ emitted' = <<>>
          /\ last' = Op("hostVerifyGuess", s,
                        IF PointsTable[g, Loaded[1].currentRound[1].track] > 0
                        THEN "title" ELSE "no")
          /\ UNCHANGED <<store, conn, now, yt, pending, crashed, hist>>

(***************************************************************************)
(* pauseRound, resumeRound                                                 *)
(***************************************************************************)
pauseRefused(r, s) ==
  \/ r.currentRound = <<>>
  \/ r.hostId # s

\* a handler that also opened the round again
withPausedReopened(r, paused) ==
  [r EXCEPT !.currentRound[1].paused = paused,
            !.currentRound[1].solved = FALSE]

\* room.currentRound.paused = paused
withPaused(r, paused) == [r EXCEPT !.currentRound[1].paused = paused]

SetPaused(op, s, paused, event) ==
  /\ Alive(s)
  /\ IF Loaded = <<>> THEN Refuse(op, s)
     ELSE IF pauseRefused(Loaded[1], s) THEN Refuse(op, s)
     ELSE /\ Done(op, s, "ok", withPaused(Loaded[1], paused),
                  <<Simple(event), RoomState>>)
          /\ UNCHANGED <<conn, now, yt, pending, crashed, hist>>

PauseRound(s) == SetPaused("pauseRound", s, TRUE, "pausePlayback")

ResumeRound(s) == SetPaused("resumeRound", s, FALSE, "resumePlayback")

(***************************************************************************)
(* The clock and the specification                                         *)
(***************************************************************************)
\* io.on("connection"): the next socket connects.  Socket ids are handed
\* out in order, at most max of them
Connect(max) ==
  /\ ~crashed
  /\ conn.opened < max
  /\ conn' = [conn EXCEPT !.opened = @ + 1]
  /\ emitted' = <<>>
  /\ last' = Op("connect", conn.opened + 1, "none")
  /\ UNCHANGED <<rooms, store, now, yt, pending, crashed, hist>>

\* Date.now() moves on, up to max
Clock(max) ==
  /\ ~crashed
  /\ now < max
  /\ now' = now + 1
  /\ emitted' = <<>>
  /\ last' = Op("tick", NoId, "none")
  /\ UNCHANGED <<rooms, store, conn, yt, pending, crashed, hist>>

Tick == Clock(MaxTime)

Init ==
  /\ rooms = <<>>
  /\ store = <<>>
  /\ conn = [opened |-> 0, closed |-> {}]
  /\ now = 1
  /\ yt = [exceeded |-> FALSE, resetTime |-> 0]
  /\ pending = {}
  /\ emitted = <<>>
  /\ last = Op("init", NoId, "none")
  /\ crashed = FALSE
  /\ hist = NoHist

\* every key room.users can hold
Handles == Sockets \cup {PendingSid(u) : u \in Uids}

Names == {JoinName(n) : n \in NameInputs}

Next ==
  \/ Connect(NumSockets)
  \/ \E s \in Sockets : CreateRoom(s)
  \/ \E s \in Sockets, name \in NameInputs, uid \in {NoId} \cup Uids :
       JoinRoom(s, name, uid)
  \/ \E s \in Sockets : Disconnect(s)
  \/ \E s \in Sockets, target \in Handles : KickPlayer(s, target)
  \/ \E s \in Sockets, mode \in Modes, tracks \in TrackLists,
        gameType \in GameTypeInputs : StartGame(s, mode, tracks, gameType)
  \/ \E s \in Sockets : NextRound(s)
  \/ \E p \in pending, out \in SearchOutcomes : SearchReturns(p, out)
  \/ \E p \in pending, out \in ApiOutcomes : ApiReturns(p, out)
  \/ \E s \in Sockets, g \in GuessIds : Guess(s, g)
  \/ \E p \in pending : GuessLoaded(p)
  \/ \E p \in pending : GuessEmit(p)
  \/ \E s \in Sockets : VoteSkip(s)
  \/ \E s \in Sockets : Buzz(s)
  \/ \E s \in Sockets : PassBuzzer(s)
  \/ \E s \in Sockets, n \in Names, points \in PointInputs :
       AwardPoints(s, n, points)
  \/ \E s \in Sockets, n \in Names, points \in PointInputs :
       DeductPoints(s, n, points)
  \/ \E s \in Sockets : EndRoundManual(s)
  \/ \E s \in Sockets, g \in GuessIds : HostVerifyGuess(s, g)
  \/ \E s \in Sockets : PauseRound(s)
  \/ \E s \in Sockets : ResumeRound(s)
  \/ Tick

Spec == Init /\ [][Next]_vars

(***************************************************************************)
(* Scenarios: the same handlers, driven by fewer clients with fewer        *)
(* inputs, so that every reachable state can be visited                    *)
(***************************************************************************)
\* the one-track list of the scenarios
OneTrack == <<1>>

\* the lobby: rooms, members with and without accounts, hosts
NextLobby ==
  \/ Connect(NumSockets)
  \/ \E s \in Sockets : CreateRoom(s)
  \/ \E s \in Sockets, name \in NameInputs, uid \in {NoId} \cup Uids :
       JoinRoom(s, name, uid)
  \/ \E s \in Sockets : Disconnect(s)
  \/ \E s \in Sockets, target \in Handles : KickPlayer(s, target)

SpecLobby == Init /\ [][NextLobby]_vars

\* a text game of one track among anonymous clients
NextText ==
  \/ Connect(NumSockets)
  \/ \E s \in Sockets : CreateRoom(s)
  \/ \E s \in Sockets : JoinRoom(s, "Bob", NoId)
  \/ \E s \in Sockets : Disconnect(s)
  \/ \E s \in Sockets : StartGame(s, "spotify", OneTrack, "text")
  \/ \E s \in Sockets : NextRound(s)
  \/ \E s \in Sockets, g \in GuessIds : Guess(s, g)
  \/ \E p \in pending : GuessLoaded(p)
  \/ \E p \in pending : GuessEmit(p)

SpecText == Init /\ [][NextText]_vars

\* skip votes in a text game of one track, with members kicked and leaving
NextSkip ==
  \/ Connect(NumSockets)
  \/ \E s \in Sockets : CreateRoom(s)
  \/ \E s \in Sockets : JoinRoom(s, "Bob", NoId)
  \/ \E s \in Sockets : Disconnect(s)
  \/ \E s \in Sockets, target \in Sockets : KickPlayer(s, target)
  \/ \E s \in Sockets : StartGame(s, "spotify", OneTrack, "text")
  \/ \E s \in Sockets : NextRound(s)
  \/ \E s \in Sockets : VoteSkip(s)

SpecSkip == Init /\ [][NextSkip]_vars

\* a buzzer game of one track among anonymous clients, with the clock
NextBuzzer ==
  \/ Connect(NumSockets)
  \/ \E s \in Sockets : CreateRoom(s)
  \/ \E s \in Sockets : JoinRoom(s, "Bob", NoId)
  \/ \E s \in Sockets : Disconnect(s)
  \/ \E s \in Sockets : StartGame(s, "spotify", OneTrack, "buzzer")
  \/ \E s \in Sockets : NextRound(s)
  \/ \E s \in Sockets : Buzz(s)
  \/ \E s \in Sockets : PassBuzzer(s)
  \/ \E s \in Sockets : EndRoundManual(s)
  \/ Tick

SpecBuzzer == Init /\ [][NextBuzzer]_vars

\* the buzzer of a buzzer game: members buzz, leave, are kicked and come
\* back, the host passes the buzzer on
NextQueue ==
  \/ Connect(NumSockets)
  \/ \E s \in Sockets : CreateRoom(s)
  \/ \E s \in Sockets : JoinRoom(s, "Bob", NoId)
  \/ \E s \in Sockets : Disconnect(s)
  \/ \E s \in Sockets, target \in Sockets : KickPlayer(s, target)
  \/ \E s \in Sockets : StartGame(s, "spotify", OneTrack, "buzzer")
  \/ \E s \in Sockets : NextRound(s)
  \/ \E s \in Sockets : Buzz(s)
  \/ \E s \in Sockets : PassBuzzer(s)

SpecQueue == Init /\ [][NextQueue]_vars

\* the host's score keeping in a buzzer game
NextPoints ==
  \/ Connect(NumSockets)
  \/ \E s \in Sockets : CreateRoom(s)
  \/ \E s \in Sockets, name \in NameInputs : JoinRoom(s, name, NoId)
  \/ \E s \in Sockets : Disconnect(s)
  \/ \E s \in Sockets : StartGame(s, "spotify", OneTrack, "buzzer")
  \/ \E s \in Sockets, n \in Names, points \in PointInputs :
       AwardPoints(s, n, points)
  \/ \E s \in Sockets, n \in Names, points \in PointInputs :
       DeductPoints(s, n, points)

SpecPoints == Init /\ [][NextPoints]_vars

\* the clients of the round-life scenario
NumPair == 2

\* the life of a round: every handler that reads or writes currentRound,
\* in games of either type
NextLifecycle ==
  \/ Connect(NumPair)
  \/ \E s \in Sockets : CreateRoom(s)
  \/ \E s \in Sockets : JoinRoom(s, "Bob", NoId)
  \/ \E s \in Sockets : Disconnect(s)
  \/ \E s \in Sockets, gameType \in {"text", "buzzer"} :
       StartGame(s, "spotify", OneTrack, gameType)
  \/ \E s \in Sockets : NextRound(s)
  \/ \E s \in Sockets : Guess(s, 2)
  \/ \E p \in pending : GuessLoaded(p)
  \/ \E p \in pending : GuessEmit(p)
  \/ \E s \in Sockets : VoteSkip(s)
  \/ \E s \in Sockets : Buzz(s)
  \/ \E s \in Sockets : PassBuzzer(s)
  \/ \E s \in Sockets : EndRoundManual(s)
  \/ \E s \in Sockets : PauseRound(s)
  \/ \E s \in Sockets : ResumeRound(s)

SpecLifecycle == Init /\ [][NextLifecycle]_vars

\* the clock of the scenarios that wait for the breaker
MaxWait == 3

\* the two-track list of the scenarios
TwoTracks == <<1, 2>>

\* rounds of a youtube game whose tracks have to be searched for: the host
\* asks for rounds while searches are under way, and the breaker trips
NextResolve ==
  \/ Connect(NumPair)
  \/ \E s \in Sockets : CreateRoom(s)
  \/ \E s \in Sockets : StartGame(s, "youtube", TwoTracks, "text")
  \/ \E s \in Sockets : NextRound(s)
  \/ \E p \in pending, out \in SearchOutcomes : SearchReturns(p, out)
  \/ \E p \in pending, out \in ApiOutcomes : ApiReturns(p, out)
  \/ Clock(MaxWait)

SpecResolve == Init /\ [][NextResolve]_vars

\* a text game of one track that is started again and again while guesses
\* wait for their store write, with the clock running
NextOrder ==
  \/ Connect(NumPair)
  \/ \E s \in Sockets : CreateRoom(s)
  \/ \E s \in Sockets : JoinRoom(s, "Bob", NoId)
  \/ \E s \in Sockets : StartGame(s, "spotify", OneTrack, "text")
  \/ \E s \in Sockets : NextRound(s)
  \/ \E s \in Sockets : Guess(s, 2)
  \/ \E p \in pending : GuessEmit(p)
  \/ Tick

SpecOrder == Init /\ [][NextOrder]_vars

\* a buzzer game of one track whose members, with and without accounts,
\* leave and come back during the round
NextReattach ==
  \/ Connect(NumSockets)
  \/ \E s \in Sockets : CreateRoom(s)
  \/ \E s \in Sockets, uid \in {NoId} \cup Uids : JoinRoom(s, "Bob", uid)
  \/ \E s \in Sockets : Disconnect(s)
  \/ \E s \in Sockets : StartGame(s, "spotify", OneTrack, "buzzer")
  \/ \E s \in Sockets : NextRound(s)
  \/ \E s \in Sockets : Buzz(s)

SpecReattach == Init /\ [][NextReattach]_vars

\* isGuessCorrect on its own: a target is drawn and guesses are matched
\* against it.  hist holds the target, the guess, what the guess was
\* taken from and the answer of the function
Matches(guess, from) ==
  /\ hist' = [hist EXCEPT !.guess = guess, !.from = from,
                          !.correct = isGuessCorrect(guess, hist.title, hist.artist)]
  /\ last' = Op("isGuessCorrect", NoId, "none")
  /\ UNCHANGED <<rooms, store, conn, now, yt, pending, emitted, crashed>>

GuessTitle == Matches(hist.title, "title")

GuessArtist == Matches(hist.artist, "artist")

GuessOther == \E g \in GuessIds : Matches(GuessText(g), "text")

InitMatch ==
  /\ rooms = <<>>
  /\ store = <<>>
  /\ conn = [opened |-> 0, closed |-> {}]
  /\ now = 1
  /\ yt = [exceeded |-> FALSE, resetTime |-> 0]
  /\ pending = {}
  /\ emitted = <<>>
  /\ last = Op("init", NoId, "none")
  /\ crashed = FALSE
  /\ \E title \in TitleInputs, artist \in ArtistInputs :
       hist = [title |-> title, artist |-> artist, guess |-> <<>>,
               from |-> "", correct |-> FALSE]

NextMatch ==
  \/ GuessTitle
  \/ GuessArtist
  \/ GuessOther

SpecMatch == InitMatch /\ [][NextMatch]_vars

\* how often normalize is applied to its own result
MaxPasses == 2

\* normalize on its own: a string is drawn and normalized again and
\* again.  hist holds the string drawn, the result so far and the passes
Normalizes ==
  /\ hist.passes < MaxPasses
  /\ hist' = [hist EXCEPT !.output = normalize(@), !.passes = @ + 1]
  /\ last' = Op("normalize", NoId, "none")
  /\ UNCHANGED <<rooms, store, conn, now, yt, pending, emitted, crashed>>

InitNormalize ==
  /\ rooms = <<>>
  /\ store = <<>>
  /\ conn = [opened |-> 0, closed |-> {}]
  /\ now = 1
  /\ yt = [exceeded |-> FALSE, resetTime |-> 0]
  /\ pending = {}
  /\ emitted = <<>>
  /\ last = Op("init", NoId, "none")
  /\ crashed = FALSE
  /\ \E str \in NormalizeInputs :
       hist = [input |-> str, output |-> str, passes |-> 0]

SpecNormalize == InitNormalize /\ [][Normalizes]_vars

\* rounds of a game of two tracks in either mode, asked for by a host that
\* sends nothing to the room while a search for a round is under way
NextRounds ==
  \/ Connect(NumPair)
  \/ \E s \in Sockets : CreateRoom(s)
  \/ \E s \in Sockets : JoinRoom(s, "Bob", NoId)
  \/ pending = {} /\ \E s \in Sockets, mode \in Modes :
                       StartGame(s, mode, TwoTracks, "text")
  \/ pending = {} /\ \E s \in Sockets : NextRound(s)
  \/ pending = {} /\ \E s \in Sockets : VoteSkip(s)
  \/ \E p \in pending, out \in SearchOutcomes : SearchReturns(p, out)
  \/ \E p \in pending, out \in ApiOutcomes : ApiReturns(p, out)
  \/ Clock(MaxWait)

SpecRounds == Init /\ [][NextRounds]_vars

\* text games of one and of two tracks played to their end: the members
\* guess, and the host asks for rounds before, during and after the game;
\* no call is sent while another one waits
NextGameOver ==
  \/ Connect(NumPair)
  \/ \E s \in Sockets : CreateRoom(s)
  \/ \E s \in Sockets : JoinRoom(s, "Bob", NoId)
  \/ pending = {} /\ \E s \in Sockets, tracks \in {OneTrack, TwoTracks} :
                       StartGame(s, "spotify", tracks, "text")
  \/ pending = {} /\ \E s \in Sockets : NextRound(s)
  \/ pending = {} /\ \E s \in Sockets : Guess(s, 2)
  \/ \E p \in pending : GuessEmit(p)
  \/ \E p \in pending, out \in SearchOutcomes : SearchReturns(p, out)

SpecGameOver == Init /\ [][NextGameOver]_vars

\* the track lists sent with startGame in the scenario of starts: none,
\* one track, two tracks, and a list that has a track twice
StartLists == {<<>>, <<1>>, <<1, 2>>, <<2, 2, 1>>}

\* text games started, and started again after rounds and skip votes, with
\* every list of StartLists
NextStart ==
  \/ Connect(NumPair)
  \/ \E s \in Sockets : CreateRoom(s)
  \/ \E s \in Sockets : JoinRoom(s, "Bob", NoId)
  \/ pending = {} /\ \E s \in Sockets, tracks \in StartLists :
                       StartGame(s, "spotify", tracks, "")
  \/ pending = {} /\ \E s \in Sockets : NextRound(s)
  \/ pending = {} /\ \E s \in Sockets : VoteSkip(s)
  \/ \E p \in pending, out \in SearchOutcomes : SearchReturns(p, out)

SpecStart == Init /\ [][NextStart]_vars

\* the name the client of socket s joins with
ClientName(s) == IF s = 2 THEN "Bob" ELSE "Carol"

\* a buzzer game of one track between Bob and Carol that the host ends by
\* hand, with the clock running from the start of the round to its end
NextManual ==
  \/ Connect(NumSockets)
  \/ \E s \in Sockets : CreateRoom(s)
  \/ \E s \in Sockets : JoinRoom(s, ClientName(s), NoId)
  \/ \E s \in Sockets : StartGame(s, "spotify", OneTrack, "buzzer")
  \/ \E s \in Sockets : NextRound(s)
  \/ \E s \in Sockets : Buzz(s)
  \/ \E s \in Sockets : PassBuzzer(s)
  \/ \E s \in Sockets : EndRoundManual(s)
  \/ Clock(MaxWait)

SpecManual == Init /\ [][NextManual]_vars

\* members with an account join, leave and come back, to the room in
\* memory and to the room rebuilt from its snapshot, while other joins
\* wait for the verification of their token
NextJoin ==
  \/ Connect(NumSockets)
  \/ \E s \in Sockets : CreateRoom(s)
  \/ \E s \in Sockets, uid \in Uids : JoinAsk(s, "Bob", uid)
  \/ \E p \in pending : JoinVerified(p)
  \/ \E s \in Sockets : Disconnect(s)
  \/ \E s \in Sockets : AwardPoints(s, "Bob", 5)
  \/ \E s \in Sockets : StartGame(s, "spotify", OneTrack, "buzzer")

SpecJoin == Init /\ [][NextJoin]_vars

\* the connection s is no member of the room in memory
Outside(s) == IF rooms = <<>> THEN TRUE ELSE ~UsersHas(rooms[1].users, s)

\* a room with a member that has no user id, so that the room stays in
\* memory when the member with the user id leaves and comes back; every
\* connection joins once, so that a member only leaves by its disconnect
NextRejoin ==
  \/ Connect(NumSockets)
  \/ \E s \in Sockets : CreateRoom(s)
  \/ \E s \in Sockets, uid \in Uids : Outside(s) /\ JoinRoom(s, "Bob", uid)
  \/ \E s \in Sockets : Outside(s) /\ JoinRoom(s, "Carol", NoId)
  \/ \E s \in Sockets : Disconnect(s)
  \/ \E s \in Sockets : StartGame(s, "spotify", OneTrack, "buzzer")
  \/ \E s \in Sockets : AwardPoints(s, "Bob", 5)

SpecRejoin == Init /\ [][NextRejoin]_vars

\* the track lists of the scenario of previews: every track of the catalog
\* on its own, and a list of two tracks that have to be searched for
PreviewLists == {<<1>>, <<2>>, <<3>>, <<4>>, <<2, 2>>}

\* spotify games over tracks with and without video id and preview, with
\* a scraper that finds a video, finds nothing or throws
NextPreview ==
  \/ Connect(NumPair)
  \/ \E s \in Sockets : CreateRoom(s)
  \/ \E s \in Sockets : JoinRoom(s, "Bob", NoId)
  \/ pending = {} /\ \E s \in Sockets, tracks \in PreviewLists :
                       StartGame(s, "spotify", tracks, "text")
  \/ pending = {} /\ \E s \in Sockets : NextRound(s)
  \/ \E p \in pending, out \in SearchOutcomes : SearchReturns(p, out)

SpecPreview == Init /\ [][NextPreview]_vars

\* no game has been started in the room in memory
NotStarted == IF rooms = <<>> THEN FALSE ELSE rooms[1].tracks = <<>>

\* one game per room, over every list of PreviewLists: the host starts it
\* once and asks for round after round, and no call is sent while another
\* one waits
NextPool ==
  \/ Connect(NumPair)
  \/ \E s \in Sockets : CreateRoom(s)
  \/ \E s \in Sockets : JoinRoom(s, "Bob", NoId)
  \/ (pending = {} /\ NotStarted)
       /\ \E s \in Sockets, tracks \in PreviewLists :
            StartGame(s, "spotify", tracks, "text")
  \/ pending = {} /\ \E s \in Sockets : NextRound(s)
  \/ \E p \in pending, out \in SearchOutcomes : SearchReturns(p, out)

SpecPool == Init /\ [][NextPool]_vars

\* the host calls nextRound when no call of his waits
HostKeepsAsking ==
  /\ pending = {}
  /\ \E s \in Sockets : NextRound(s) /\ Loaded # <<>> /\ Loaded[1].hostId = s

\* the host keeps calling nextRound, and every search of the scraper
\* comes back (YouTube.searchOne resolves or rejects, lines 120 and 124)
SpecPoolFair ==
  /\ SpecPool
  /\ WF_vars(HostKeepsAsking)
  /\ WF_vars(\E p \in pending, out \in SearchOutcomes : SearchReturns(p, out))

\* the score keeping of a buzzer game whose members have accounts
NextBoard ==
  \/ Connect(NumPair)
  \/ \E s \in Sockets : CreateRoom(s)
  \/ \E s \in Sockets, uid \in Uids : JoinRoom(s, "Bob", uid)
  \/ \E s \in Sockets : Disconnect(s)
  \/ \E s \in Sockets : StartGame(s, "spotify", OneTrack, "buzzer")
  \/ \E s \in Sockets, points \in PointInputs : AwardPoints(s, "Bob", points)
  \/ \E s \in Sockets, points \in PointInputs : DeductPoints(s, "Bob", points)

SpecBoard == Init /\ [][NextBoard]_vars

\* games of two tracks that are started only while no handler waits, so
\* that the nextRound handlers that overlap belong to one game
NextGame ==
  \/ Connect(NumPair)
  \/ \E s \in Sockets : CreateRoom(s)
  \/ \E s \in Sockets : JoinRoom(s, "Bob", NoId)
  \/ pending = {} /\ \E s \in Sockets, mode \in Modes :
                       StartGame(s, mode, TwoTracks, "text")
  \/ \E s \in Sockets : NextRound(s)
  \/ \E p \in pending, out \in SearchOutcomes : SearchReturns(p, out)
  \/ \E p \in pending, out \in ApiOutcomes : ApiReturns(p, out)

SpecGame == Init /\ [][NextGame]_vars

(***************************************************************************)
(* Properties                                                              *)
(***************************************************************************)
\* the room a handler finds
HasRoom == Loaded # <<>>

\* the step changes no room, stores nothing and sends nothing
Untouched == rooms' = Loaded /\ store' = store /\ emitted' = <<>>

\* C1: the score of every member (and of every stored player) is at least
\* 0 whatever was guessed, awarded, deducted, joined or restored
C1_ScoresNotNegative ==
  /\ rooms # <<>> =>
       \A i \in 1..Len(rooms[1].users) : rooms[1].users[i].score >= 0
  /\ store # <<>> => \A p \in store[1].players : p.score >= 0

\* C2: whenever the room has members, hostId is the handle of one of them
C2_HostIsMember ==
  (rooms # <<>> /\ rooms[1].users # <<>>) =>
    UsersHas(rooms[1].users, rooms[1].hostId)

\* a call of one of the host-only handlers by the socket s
HostOnlyCall(s) ==
  \/ \E mode \in Modes, gameType \in GameTypeInputs :
       StartGame(s, mode, OneTrack, gameType)
  \/ NextRound(s)
  \/ PauseRound(s)
  \/ ResumeRound(s)
  \/ PassBuzzer(s)
  \/ \E n \in Names, points \in PointInputs : AwardPoints(s, n, points)
  \/ \E n \in Names, points \in PointInputs : DeductPoints(s, n, points)
  \/ EndRoundManual(s)
  \/ \E g \in GuessIds : HostVerifyGuess(s, g)
  \/ \E target \in Handles : KickPlayer(s, target)

\* C3: a host-only handler called by a socket that is not the host answers
\* with an error, sends no event and leaves the room as it was
C3_HostOnlyRefused ==
  [][\A s \in Sockets :
       (HasRoom /\ Loaded[1].hostId # s /\ HostOnlyCall(s)) =>
         (last'.ack = "error" /\ Untouched)]_vars

\* a call of one of the handlers that need a running round by the socket s
RoundCall(s) ==
  \/ \E g \in GuessIds : Guess(s, g)
  \/ VoteSkip(s)
  \/ Buzz(s)
  \/ PassBuzzer(s)
  \/ PauseRound(s)
  \/ ResumeRound(s)
  \/ EndRoundManual(s)

\* the room has no round, or a finished one
NoActiveRound(r) == r.currentRound = <<>> \/ r.currentRound[1].solved

\* C4: guess, voteSkip, buzz, passBuzzer, pauseRound, resumeRound and
\* endRoundManual change nothing and send nothing when the room has no
\* round or the round is solved
C4_NeedsActiveRound ==
  [][\A s \in Sockets :
       (HasRoom /\ NoActiveRound(Loaded[1]) /\ RoundCall(s)) => Untouched]_vars

\* C5: of the guesses that connections send on one round of a text game,
\* one at most ends the round and is credited
C5_OneGuessEndsRound == hist.guessWins <= 1

\* C6: a guess that matches artist and title of the track credits 10
\* points to the member who sent it, a guess that matches the title alone
\* credits 5
C6_FullGuessCreditsTen ==
  [][\A s \in Sockets :
       (/\ rooms # <<>>
        /\ ~guessRefused(rooms[1])
        /\ rooms[1].currentRound[1].track = 1
        /\ UsersHas(rooms[1].users, s)) =>
         /\ Guess(s, 1) =>
              UsersGet(rooms'[1].users, s).score
                = UsersGet(rooms[1].users, s).score + 10
         /\ Guess(s, 2) =>
              UsersGet(rooms'[1].users, s).score
                = UsersGet(rooms[1].users, s).score + 5]_vars

\* the members of r who voted to skip
MemberVotes(r) == {v \in r.skipVotes : UsersHas(r.users, v)}

\* C7: a vote ends the running round exactly when the members who have
\* voted are more than half of the members
C7_SkipByMemberMajority ==
  [][\A s \in Sockets :
       (HasRoom /\ ~NoActiveRound(Loaded[1]) /\ VoteSkip(s)) =>
         (rooms'[1].currentRound[1].solved
            <=> 2 * Cardinality(MemberVotes(rooms'[1]))
                  > Len(rooms'[1].users))]_vars

\* the handles of a buzzer: the holder, then the queue
BuzzerHandles(b) == <<b.currentId>> \o [i \in 1..Len(b.queue) |-> b.queue[i].id]

\* no handle of the round's buzzer occurs twice
UniqueHandles(round) ==
  (round # <<>> /\ round[1].buzzer # <<>>) =>
    LET h == BuzzerHandles(round[1].buzzer[1])
    IN \A i, j \in 1..Len(h) : i # j => h[i] # h[j]

\* C8: no connection handle appears more than once among the holder and
\* the queue of the buzzer, in the registry and in the store
C8_BuzzerHandlesUnique ==
  /\ rooms # <<>> => UniqueHandles(rooms[1].currentRound)
  /\ store # <<>> => UniqueHandles(store[1].currentRound)

\* a buzzer with a holder and a queue, just after a member who is already
\* in it buzzed again
C8_DuplicateBuzzSeen ==
  /\ last = Op("buzz", NoId, "duplicate")
  /\ rooms # <<>>
  /\ rooms[1].currentRound # <<>>
  /\ rooms[1].currentRound[1].buzzer # <<>>
  /\ Len(rooms[1].currentRound[1].buzzer[1].queue) >= 2

\* C9: a roundEnd of a buzzer game carries elapsedMs = firstBuzzAt -
\* startedAt exactly when a buzz was accepted in the round
C9_ElapsedToFirstBuzz ==
  \A i \in 1..Len(emitted) :
    (/\ emitted[i].type = "roundEnd"
     /\ rooms # <<>>
     /\ rooms[1].gameType = "buzzer"
     /\ rooms[1].currentRound # <<>>) =>
      (emitted[i].elapsedMs = hist.firstBuzzAt - rooms[1].currentRound[1].startedAt
         <=> hist.firstBuzzAt # NoTime)

\* the round of the room as getRoom finds it: in the registry, else in
\* the store
RoundIn(reg, doc) ==
  IF getRoom(reg, doc) = <<>> THEN <<>> ELSE getRoom(reg, doc)[1].currentRound

\* the room holds a solved round
RoundSolved == RoundIn(rooms, store) # <<>> /\ RoundIn(rooms, store)[1].solved

\* the step leaves the round in place, and solved
RoundKept ==
  /\ RoundIn(rooms', store') # <<>>
  /\ RoundIn(rooms', store')[1].solved
  /\ RoundIn(rooms', store')[1].startedAt = RoundIn(rooms, store)[1].startedAt
  /\ RoundIn(rooms', store')[1].track = RoundIn(rooms, store)[1].track

\* the step is a nextRound that commits a round
NextCommits == last'.op = "nextRound" /\ last'.ack = "ok"

\* the step is a startGame that is accepted
StartCommits == last'.op = "startGame" /\ last'.ack = "ok"

\* the step is the return of a guess handler from its load of the room
LoadReturns == \E p \in Loading : p \notin pending'

C11_NextRoundsSerialised ==
  [][NextCommits /\ rooms # <<>> =>
       rooms'[1].roundCount > rooms[1].roundCount]_vars

\* C12: events go out in the order of the mutations.  When a guess
\* handler sends its roundEnd, the round of the room is still the round
\* that guess ended (no round has replaced it, so no roundStart of a later
\* round went out before), and elapsedMs is counted from the start of the
\* round that was ended
C12_RoundEndBeforeNextStart ==
  [][\A p \in Saving :
       GuessEmit(p) /\ ~crashed' =>
         /\ RoomOf(p).currentRound[1].solved
         /\ RoomOf(p).currentRound[1].startedAt = p.at
         /\ emitted'[1].answer = RoomOf(p).currentRound[1].track
         /\ emitted'[1].elapsedMs = now - p.at]_vars

\* C13: when the connection that is the host disconnects as a member and
\* members remain, the host is the first remaining member afterwards,
\* whatever the round and its buzzer are
C13_HostPassesToFirstMember ==
  [][\A s \in Sockets :
       /\ Disconnect(s)
       /\ rooms # <<>>
       /\ rooms[1].hostId = s
       /\ UsersHas(rooms[1].users, s)
       /\ rooms' # <<>>
       /\ rooms'[1].users # <<>>
       => rooms'[1].hostId = rooms'[1].users[1].sid]_vars

\* every member of the room before, but the one with key s or uid u, is a
\* member of the room after with the same score
ScoresKept(before, after, s, u) ==
  \A i \in 1..Len(before.users) :
    LET m == before.users[i]
    IN m.sid # s /\ (u = NoId \/ m.uid # u) =>
         /\ UsersHas(after.users, m.sid)
         /\ UsersGet(after.users, m.sid).score = m.score

\* the round of the room after is the round of the room before in
\* everything but the buzzer
RoundKeptButBuzzer(before, after) ==
  /\ after.roundCount = before.roundCount
  /\ (after.currentRound = <<>>) = (before.currentRound = <<>>)
  /\ before.currentRound # <<>> =>
       after.currentRound =
         <<[before.currentRound[1] EXCEPT
              !.buzzer = after.currentRound[1].buzzer]>>

\* the connection s holds the buzzer of the round or waits in its queue
InBuzzer(r, s) ==
  /\ r.currentRound # <<>>
  /\ r.currentRound[1].buzzer # <<>>
  /\ \E i \in 1..Len(BuzzerHandles(r.currentRound[1].buzzer[1])) :
       BuzzerHandles(r.currentRound[1].buzzer[1])[i] = s

\* the join of a connection whose token verifies to the host account
\* makes that connection the host and leaves the round, the round count
\* and the scores of the other members as they are
HostReattaches ==
  \A s \in Sockets, u \in Uids :
    JoinRoom(s, "Bob", u) /\ Loaded # <<>> /\ Loaded[1].hostUid = u =>
      /\ rooms'[1].hostId = s
      /\ rooms'[1].currentRound = Loaded[1].currentRound
      /\ rooms'[1].roundCount = Loaded[1].roundCount
      /\ ScoresKept(Loaded[1], rooms'[1], s, u)

\* the host leaves as a member and another member inherits
HostLeaves(s) ==
  /\ Disconnect(s)
  /\ rooms # <<>>
  /\ rooms[1].hostId = s
  /\ UsersHas(rooms[1].users, s)
  /\ rooms' # <<>>
  /\ rooms'[1].hostId # s

\* C14, as stated: the host account leaves during a round, another member
\* inherits, the account joins again; the joining connection is the host,
\* and the round with its buzzer, the round count and the scores of the
\* other members are what they were before the host left
C14_HostReattachKeepsRound ==
  [][/\ HostReattaches
     /\ \A s \in Sockets :
          HostLeaves(s) =>
            /\ rooms'[1].currentRound = rooms[1].currentRound
            /\ rooms'[1].roundCount = rooms[1].roundCount
            /\ ScoresKept(rooms[1], rooms'[1], s, NoId)]_vars

\* C14, amended: as stated, but the buzzer is what it was only if the
\* leaving host was neither its holder nor in its queue
C14_HostReattachKeepsRoundButBuzzer ==
  [][/\ HostReattaches
     /\ \A s \in Sockets :
          HostLeaves(s) =>
            /\ RoundKeptButBuzzer(rooms[1], rooms'[1])
            /\ ScoresKept(rooms[1], rooms'[1], s, NoId)
            /\ ~InBuzzer(rooms[1], s) =>
                 rooms'[1].currentRound = rooms[1].currentRound]_vars

\* C14: the host account has just joined again, as the last member of a
\* room with a round whose earlier connection is closed, and is the host
C14_HostReattached ==
  /\ rooms # <<>>
  /\ last = Op("joinRoom", NoId, "ok")
  /\ conn.closed # {}
  /\ Len(rooms[1].users) >= 2
  /\ rooms[1].currentRound # <<>>
  /\ rooms[1].hostUid # NoId
  /\ rooms[1].users[Len(rooms[1].users)].uid = rooms[1].hostUid
  /\ rooms[1].users[Len(rooms[1].users)].sid = rooms[1].hostId

\* C15: no two members of a room have the same display name
C15_NamesUnique ==
  rooms # <<>> =>
    \A i, j \in 1..Len(rooms[1].users) :
      i # j => rooms[1].users[i].name # rooms[1].users[j].name

\* C16: a disconnect or a kick that removes the last member of a room
\* removes the room from the registry
C16_EmptyRoomDropped ==
  [][\A s \in Sockets :
       /\ Disconnect(s) \/ \E target \in Handles : KickPlayer(s, target)
       /\ Loaded # <<>>
       /\ Loaded[1].users # <<>>
       /\ rooms' # <<>>
       => rooms'[1].users # <<>>]_vars

\* C17: every operation that changes the room stores it afterwards: when
\* no handler is under way, the stored snapshot is the projection of the
\* room in memory (the stored players may also name members who left,
\* the write merges them)
C17_SnapshotIsCurrent ==
  (rooms # <<>> /\ pending = {} /\ ~crashed) =>
    /\ store # <<>>
    /\ [store[1] EXCEPT !.players = {}]
         = [Payload(rooms[1]) EXCEPT !.players = {}]
    /\ PlayersOf(rooms[1].users) \subseteq store[1].players

\* C18: every handler that changes the room of the registry (members,
\* host, scores, skip votes, round count, round) and runs to its end sends
\* a roomState with its events
C18_ChangeBroadcast ==
  [][(rooms # <<>> /\ rooms' # <<>> /\ rooms' # rooms /\ ~crashed') =>
       \E i \in 1..Len(emitted') : emitted'[i] = RoomState]_vars

\* the handlers waiting for the official API
Calling(pend) == {p \in pend : p.kind = "api"}

\* the breaker is tripped and its deadline has not passed
Blocked == yt.exceeded /\ now <= yt.resetTime

\* C19: a search of the official API that fails with quotaExceeded trips
\* the breaker; while the breaker is tripped and its deadline has not
\* passed no handler calls the official API; and a handler that comes to
\* the call after the deadline calls it, and the breaker is reset
C19_BreakerHoldsCalls ==
  [][/\ \A p \in Calling(pending) :
          ApiReturns(p, "quota") =>
            yt'.exceeded /\ yt'.resetTime = now + QuotaDelay
     /\ Blocked => Calling(pending') \subseteq Calling(pending)
     /\ \A p \in pending :
          (SearchReturns(p, "none") /\ p.mode = "youtube"
             /\ yt.exceeded /\ ~Blocked) =>
            /\ [p EXCEPT !.kind = "api"] \in pending'
            /\ ~yt'.exceeded]_vars

\* C19: the breaker was tripped, its deadline has passed, and a handler
\* is calling the official API again
C19_CallAfterDeadline ==
  /\ Calling(pending) # {}
  /\ yt.resetTime > 0
  /\ now > yt.resetTime
  /\ ~yt.exceeded
  /\ last = Op("nextRound", NoId, "calling")

\* C20: the title of a target, sent as the guess, is correct, and so is
\* the artist of a target that has one
C20_OwnTitleAndArtistCorrect ==
  /\ (last.op = "isGuessCorrect" /\ hist.from = "title") => hist.correct
  /\ (last.op = "isGuessCorrect" /\ hist.from = "artist" /\ hist.artist # <<>>)
       => hist.correct

\* C21: normalize is idempotent: applied to a string it has produced, it
\* returns that string
C21_NormalizeIdempotent ==
  [][(Normalizes /\ hist.passes >= 1) => hist'.output = hist.output]_vars

\* the position the resolver of this step goes on from: the one of the
\* search that returns, else the round count of the room
From ==
  IF Resolving(pending) = {} THEN Loaded[1].roundCount
  ELSE (CHOOSE p \in Resolving(pending) : TRUE).idx

\* the track at position j has no playback and no search to wait for,
\* with the breaker as the step leaves it
Unplayable(r, j) ==
  buildPlaybackForTrack(r.tracks[j], r.mode, yt', now).pb = "none"

\* the positions after From and before position `to` are unplayable
SkippedUnplayable(r, to) == \A j \in (From + 1)..(to - 1) : Unplayable(r, j)

\* a search of this step returns with a video
SearchHit ==
  \E p \in pending : SearchReturns(p, "hit") \/ ApiReturns(p, "hit")

\* a nextRound handler of this step ends without a playback
GaveUp ==
  /\ last'.op = "nextRound"
  /\ last'.ack = "error"
  /\ \/ \E s \in Sockets : NextRound(s) /\ Loaded # <<>> /\ Loaded[1].hostId = s
     \/ \E p \in pending, out \in SearchOutcomes : SearchReturns(p, out)
     \/ \E p \in pending, out \in ApiOutcomes : ApiReturns(p, out)

\* the room r with the round of position i and playback pb committed
RoundCommitted(r, i, pb) ==
  [r EXCEPT !.roundCount = i,
            !.currentRound =
               <<[startedAt |-> now, track |-> r.tracks[i], playback |-> pb,
                  solved |-> FALSE, paused |-> FALSE, buzzer |-> <<>>]>>,
            !.skipVotes = {}]

\* C22: nextRound commits the track at the first position from the round
\* count on whose playback resolves: the round count becomes that
\* position, the round starts now, unsolved, not paused, without buzzer,
\* and the skip votes are emptied; positions are passed over only when
\* they have no playback; and when no position is left the room is as it
\* was
C22_NextRoundCommitsFirstPlayable ==
  [][/\ (NextCommits /\ Loaded # <<>>) =>
          \E i \in 1..Len(Loaded[1].tracks), pb \in {"audio", "youtube"} :
            /\ rooms' = <<RoundCommitted(Loaded[1], i, pb)>>
            /\ i > Loaded[1].roundCount
            /\ IF SearchHit THEN i = From
               ELSE /\ i > From
                    /\ SkippedUnplayable(Loaded[1], i)
                    /\ buildPlaybackForTrack(Loaded[1].tracks[i], Loaded[1].mode,
                                             yt', now).pb = pb
     /\ \A q \in pending' \ pending :
          q.kind = "sr" =>
            /\ q.idx > From
            /\ SkippedUnplayable(Loaded[1], q.idx)
            /\ q.track = Loaded[1].tracks[q.idx]
            /\ rooms' = Loaded
     /\ GaveUp =>
          /\ rooms' = Loaded
          /\ SkippedUnplayable(Loaded[1], Len(Loaded[1].tracks) + 1)]_vars

\* C22: a round was committed at the second position, on a track that had
\* to be searched for
C22_SearchedRoundCommitted ==
  /\ rooms # <<>>
  /\ last = Op("nextRound", NoId, "ok")
  /\ rooms[1].roundCount = 2
  /\ rooms[1].currentRound # <<>>
  /\ rooms[1].currentRound[1].track = 2
  /\ rooms[1].currentRound[1].playback = "youtube"
  /\ rooms[1].currentRound[1].startedAt = now

\* an event of type gameOver is among the events ev
HasGameOver(ev) == \E i \in 1..Len(ev) : ev[i].type = "gameOver"

\* the host s calls nextRound on a room that exists
HostNextRound(s) == NextRound(s) /\ Loaded # <<>> /\ Loaded[1].hostId = s

\* C23: a nextRound of the host sends gameOver exactly when the round count
\* has reached the length of the track list at the call, whatever that
\* length; the event carries name and score of every member, and the call
\* leaves the room and its snapshot as they were
C23_GameOverAtEndOfPool ==
  [][/\ \A s \in Sockets :
          HostNextRound(s) =>
            LET r == Loaded[1]
                atEnd == r.roundCount >= Len(r.tracks)
            IN /\ HasGameOver(emitted') <=> atEnd
               /\ atEnd =>
                    /\ emitted' =
                         <<[type |-> "gameOver",
                            scores |-> [i \in 1..Len(r.users) |->
                                          [name |-> r.users[i].name,
                                           score |-> r.users[i].score]]]>>
                    /\ rooms' = Loaded
                    /\ store' = store
                    /\ pending' = pending
     /\ (HasGameOver(emitted') /\ emitted' # emitted) =>
          \E s \in Sockets : HostNextRound(s)]_vars

\* C23: the game of two tracks is over, with a score that was won
C23_GameOverWithScores ==
  /\ rooms # <<>>
  /\ last = Op("nextRound", NoId, "gameOver")
  /\ Len(rooms[1].tracks) = 2
  /\ rooms[1].roundCount = 2
  /\ HasGameOver(emitted)
  /\ \E i \in 1..Len(emitted[1].scores) : emitted[1].scores[i].score > 0

\* C23: gameOver was sent in a room without tracks
C23_GameOverInLobby ==
  /\ rooms # <<>>
  /\ rooms[1].tracks = <<>>
  /\ HasGameOver(emitted)

\* how often x occurs in the sequence q
Occurrences(q, x) == Cardinality({i \in 1..Len(q) : q[i] = x})

\* the sequences p and q have the same length and the same elements, each
\* as often in p as in q
SameBag(p, q) ==
  /\ Len(p) = Len(q)
  /\ \A x \in Range(p) \cup Range(q) : Occurrences(p, x) = Occurrences(q, x)

MemberBuzzes(s) ==
  /\ Buzz(s)
  /\ Loaded # <<>>
  /\ ~buzzRefused(Loaded[1], s)

\* C25: the first buzz of a round that is accepted makes its caller the
\* holder, records the time of the first buzz, pauses the round and sends
\* pausePlayback; every later buzz of the round from a member that is
\* neither holder nor queued goes to the tail of the queue; a buzz of the
\* holder or of a queued member changes nothing
C25_BuzzArbitration ==
  [][\A s \in Sockets :
       MemberBuzzes(s) =>
         LET cr == Loaded[1].currentRound[1]
             cr2 == rooms'[1].currentRound[1]
         IN IF hist.firstBuzzAt = NoTime
            THEN /\ cr2.buzzer # <<>>
                 /\ BuzzerHandles(cr2.buzzer[1]) = <<s>>
                 /\ cr2.buzzer[1].tsFirst = now
                 /\ cr2.paused
                 /\ \E i \in 1..Len(emitted') : emitted'[i].type = "pausePlayback"
            ELSE IF cr.buzzer # <<>> /\ buzzKnown(cr.buzzer[1], s)
            THEN rooms' = Loaded /\ store' = store /\ emitted' = <<>>
            ELSE /\ cr.buzzer # <<>>
                 /\ cr2.buzzer # <<>>
                 /\ BuzzerHandles(cr2.buzzer[1]) =
                      Append(BuzzerHandles(cr.buzzer[1]), s)
                 /\ cr2.buzzer[1].tsFirst = cr.buzzer[1].tsFirst]_vars

\* the host s passes the buzzer of a round that has one
HostPasses(s) ==
  /\ PassBuzzer(s)
  /\ Loaded # <<>>
  /\ ~passRefused(Loaded[1], s)

HostEndsRound(s) ==
  /\ EndRoundManual(s)
  /\ Loaded # <<>>
  /\ ~endRefused(Loaded[1], s)

Sent(ev, type) == \E i \in 1..Len(ev) : ev[i].type = type

\* the member s leaves a room whose round has a buzzer
MemberLeavesBuzzer(s) ==
  /\ Disconnect(s)
  /\ rooms # <<>>
  /\ UsersHas(rooms[1].users, s)
  /\ rooms[1].currentRound # <<>>
  /\ rooms[1].currentRound[1].buzzer # <<>>

\* C28: when a member leaves a round that has a buzzer: a holder with
\* somebody queued is followed by the head of the queue, the rest of the
\* queue keeps its order, and buzzed and queueUpdated are sent; a holder
\* with nobody queued leaves no buzzer, and buzzCleared is sent; a queued
\* member is taken out of the queue, and queueUpdated is sent; afterwards
\* the one that left is neither holder nor queued
C28_BuzzerTidiedOnDisconnect ==
  [][\A s \in Sockets :
       MemberLeavesBuzzer(s) =>
         LET b == rooms[1].currentRound[1].buzzer[1]
             left == IF rooms' = <<>> THEN <<>>
                     ELSE rooms'[1].currentRound[1].buzzer
         IN /\ (b.currentId = s /\ b.queue # <<>>) =>
                 /\ rooms' # <<>>
                 /\ left = <<[b EXCEPT !.currentId = b.queue[1].id,
                                       !.currentName = b.queue[1].name,
                                       !.queue = Tail(b.queue)]>>
                 /\ Sent(emitted', "buzzed")
                 /\ Sent(emitted', "queueUpdated")
            /\ (b.currentId = s /\ b.queue = <<>>) =>
                 /\ left = <<>>
                 /\ Sent(emitted', "buzzCleared")
            /\ (b.currentId # s /\ InBuzzer(rooms[1], s)) =>
                 /\ rooms' # <<>>
                 /\ left = <<[b EXCEPT !.queue =
                                 SelectSeq(b.queue, LAMBDA q : q.id # s)]>>
                 /\ Sent(emitted', "queueUpdated")
            /\ \A i \in 1..Len(left) :
                 \A j \in 1..Len(BuzzerHandles(left[i])) :
                   BuzzerHandles(left[i])[j] # s]_vars

\* the positions of the members of uid in users
WithUid(users, uid) == {i \in 1..Len(users) : users[i].uid = uid}

\* no two members of the room r have the same uid
UidsUnique(r) == \A uid \in Uids : Cardinality(WithUid(r.users, uid)) <= 1

\* the room objects there are: the one of the registry and those that
\* waiting handlers hold
RoomObjects ==
  {rooms[i] : i \in 1..Len(rooms)} \cup
  {p.obj[1] : p \in {q \in pending : q.obj # <<>>}}

\* the join of p ends with a uid that a member under another handle has
Reattaches(p) ==
  /\ JoinVerified(p)
  /\ p.g # NoId
  /\ FindByUid(RoomOf(p).users, p.g) > 0
  /\ RoomOf(p).users[FindByUid(RoomOf(p).users, p.g)].sid # p.sid

C30_NoneOnlyAfterSearches ==
  [][(Loaded # <<>> /\ Loaded[1].mode = "youtube") =>
       /\ NextCommits => rooms'[1].roundCount <= From + 1
       /\ \A q \in pending' \ pending : q.kind = "sr" => q.idx <= From + 1
       /\ GaveUp => Len(Loaded[1].tracks) <= From
       /\ \A p \in pending :
            SearchReturns(p, "none") =>
              \E q \in pending' : q.kind = "api" /\ q.idx = p.idx]_vars

\* the host s asks for a round of a spotify game that has tracks left
HostAsksRound(s) ==
  /\ HostNextRound(s)
  /\ Loaded[1].mode = "spotify"
  /\ Loaded[1].roundCount < Len(Loaded[1].tracks)

\* the round of position i with playback pb is committed by this step
Commits(i, pb) ==
  /\ NextCommits
  /\ rooms'[1].roundCount = i
  /\ rooms'[1].currentRound[1].track = Loaded[1].tracks[i]
  /\ rooms'[1].currentRound[1].playback = pb

\* this step leaves a handler waiting for the scraper on position i
AsksScraper(i) ==
  /\ ~NextCommits
  /\ rooms' = Loaded
  /\ \E q \in pending' \ pending :
       q.kind = "sr" /\ q.idx = i /\ q.track = Loaded[1].tracks[i]

HostScores(s, name) ==
  /\ \E points \in PointInputs :
       AwardPoints(s, name, points) \/ DeductPoints(s, name, points)
  /\ Loaded # <<>>
  /\ ~pointsRefused(Loaded[1], s, name)

\* C32: when points are awarded to or deducted from a member that has a
\* uid, the leaderboard is asked to add what the score of the member in
\* the room changed by
C32_LeaderboardFollowsScore ==
  [][\A s \in Sockets :
       HostScores(s, "Bob") =>
         LET k == FindByName(Loaded[1].users, "Bob")
             before == Loaded[1].users[k]
             after == rooms'[1].users[k]
         IN before.uid # NoId =>
              /\ emitted'[1].type = "leaderboard"
              /\ emitted'[1].uid = before.uid
              /\ emitted'[1].inc = after.score - before.score]_vars

\* C33: within a game no position of the track list is committed twice:
\* a handler that returns from its search with a video commits a position
\* the room has not reached yet, and leaves the room at a higher round
\* count, however the waiting nextRound handlers interleave
C33_NoPositionCommittedTwice ==
  [][\A p \in pending :
       (SearchReturns(p, "hit") \/ ApiReturns(p, "hit")) =>
         /\ p.idx > RoomOf(p).roundCount
         /\ p.obj = <<>> => rooms'[1].roundCount > rooms[1].roundCount]_vars

\* the round of the room has been ended
AlreadyEnded ==
  /\ Loaded # <<>>
  /\ Loaded[1].currentRound # <<>>
  /\ Loaded[1].currentRound[1].solved

\* C34: a round gets one roundEnd at most: a voteSkip or an
\* endRoundManual sends roundEnd only for a round that has not been
\* ended, and a guess is taken only on such a round
C34_OneRoundEndPerRound ==
  [][\A s \in Sockets :
       /\ ((VoteSkip(s) \/ EndRoundManual(s)) /\ Sent(emitted', "roundEnd")) =>
            ~AlreadyEnded
       /\ (Guess(s, 2) /\ last'.ack = "saving") => ~AlreadyEnded]_vars

\* the connection s, which is no member of the room, sends guess, voteSkip
\* or buzz
OutsiderActs(s) ==
  /\ Loaded # <<>>
  /\ ~UsersHas(Loaded[1].users, s)
  /\ Guess(s, 2) \/ VoteSkip(s) \/ Buzz(s)

\* C35: a guess, a voteSkip or a buzz of a connection that is no member
\* of the room leaves the room as it is (round, skip votes, scores,
\* buzzer) and sends no roundEnd
C35_OutsidersChangeNothing ==
  [][\A s \in Sockets :
       OutsiderActs(s) => rooms' = Loaded /\ ~Sent(emitted', "roundEnd")]_vars

\* C36: the holder of the buzzer and everybody in its queue are members of
\* the room
C36_BuzzerHoldsMembers ==
  (/\ rooms # <<>>
   /\ rooms[1].currentRound # <<>>
   /\ rooms[1].currentRound[1].buzzer # <<>>) =>
    LET h == BuzzerHandles(rooms[1].currentRound[1].buzzer[1])
    IN \A i \in 1..Len(h) : UsersHas(rooms[1].users, h[i])

\* C37: the registry has one room object per code: a handler that comes
\* back from reading the snapshot while the registry already holds the
\* room goes on with that room, so that the registry keeps the members the
\* room has got meanwhile, and no waiting handler is left with a room
\* object that the registry has dropped
C37_OneRoomObject ==
  [][\A p \in pending :
       (GuessLoaded(p) /\ rooms # <<>>) =>
         /\ rooms' # <<>>
         /\ \A i \in 1..Len(rooms[1].users) :
              UsersHas(rooms'[1].users, rooms[1].users[i].sid)
         /\ \A q \in pending' : q.obj = <<>>]_vars

\* the buzzer of the running round is there before the step and gone after it
BuzzerCleared ==
  /\ rooms # <<>>
  /\ rooms[1].currentRound # <<>>
  /\ rooms[1].currentRound[1].buzzer # <<>>
  /\ rooms' # <<>>
  /\ rooms'[1].currentRound # <<>>
  /\ rooms'[1].currentRound[1].buzzer = <<>>

\* C39: when passBuzzer or a disconnect removes the buzzer of the running
\* round, the round is not paused afterwards and resumePlayback is sent
C39_ClearedBuzzerResumes ==
  [][\A s \in Sockets :
       ((PassBuzzer(s) \/ Disconnect(s)) /\ BuzzerCleared) =>
         /\ ~rooms'[1].currentRound[1].paused
         /\ Sent(emitted', "resumePlayback")]_vars

\* the score the snapshot holds for the user id; awardPoints, startGame and
\* joinRoom all end with saveRoom, so this is the score the member of that
\* user id had when its connection closed
StoredScore(uid) == (CHOOSE q \in store[1].players : q.uid = uid).score

\* s joins with a user id that the snapshot knows and that has no member
\* in the room in memory
Rejoins(s, uid) ==
  /\ JoinRoom(s, "Bob", uid)
  /\ rooms # <<>>
  /\ ~UsersHas(rooms[1].users, s)
  /\ FindByUid(rooms[1].users, uid) = 0
  /\ store # <<>>
  /\ \E q \in store[1].players : q.uid = uid

\* C40: a user who left a room that stayed in memory and joins it again
\* with a token of the same user id has the score it had when it left
C40_RejoinKeepsScore ==
  [][\A s \in Sockets, uid \in Uids :
       Rejoins(s, uid) =>
         /\ rooms' # <<>>
         /\ FindByUid(rooms'[1].users, uid) > 0
         /\ rooms'[1].users[FindByUid(rooms'[1].users, uid)].score
              = StoredScore(uid)]_vars

\* a game has been started: the room has its pool of tracks
GameStarted == rooms # <<>> /\ rooms[1].tracks # <<>>

\* C38: in a started game the host who keeps calling nextRound gets to the
\* gameOver broadcast, whatever the scraper finds for the tracks
C38_GameOverReached == GameStarted ~> HasGameOver(emitted)

====
